---- MODULE Spec2Model ----
(***************************************************************************)
(* Model of the concurrent batch translation pipeline of mc_translator.    *)
(*                                                                         *)
(* Specification Spec: several invocations of execute_translation_batches  *)
(* (src/logic/common.rs) that share one TranslationContext (batch_size and *)
(* the network semaphore) and one CancellationToken, together with the     *)
(* batch tasks they spawn.  A batch task runs translate_text_list, that    *)
(* is the attempt loop of send_with_retry (src/logic/openai.rs), and the   *)
(* user may cancel at any moment from the UI thread.                       *)
(*                                                                         *)
(* Specification SpecRetry: one call of send_with_retry with its retry     *)
(* policy, the statuses and headers of the responses, the waits and the    *)
(* logged retries.  SpecRetryFair adds that every await resolves.          *)
(*                                                                         *)
(* Specification SpecPipe: the processing of one artifact, by              *)
(* core_translation_pipeline (src/logic/common.rs) or by process_snbt      *)
(* (src/logic/formats/snbt.rs), around the scheduler of Spec: the files    *)
(* on disk, the pending set and the base map.                              *)
(***************************************************************************)
EXTENDS Integers, Sequences, FiniteSets, TLC

(***************************************************************************)
(* Bounds of the model.                                                    *)
(***************************************************************************)
\* number of concurrent invocations (artifacts in progress)
NumInv == 2
\* keys of the input mapping of invocation 1: 1..MaxKeys, iterated in key order
MaxKeys == 3
\* keys of the input mapping of every other invocation: 1..MaxOtherKeys
MaxOtherKeys == 1
\* ctx.batch_size ranges over 0..MaxBatch
MaxBatch == 2
\* capacity of ctx.network_semaphore (config.max_network_concurrency)
NetLimit == 2
\* self.max_retries of the client
MaxRetries == 1
\* self.max_retries of a call of send_with_retry ranges over 0..MaxRetriesConfig
MaxRetriesConfig == 2
\* self.retry_delay of a call of send_with_retry ranges over 0..MaxDelay
MaxDelay == 2
\* keys of the source mapping of a pipeline invocation: 1..n, n <= PipeKeys
PipeKeys == 2
\* a quest document holds up to MaxSpans spans
MaxSpans == 2
\* successive invocations of the pipeline on one artifact
MaxRuns == 2
\* characters of a file name handed to get_target_filename
MaxNameLen == 3
\* characters of the text of a quest document handed to the splice
MaxDocLen == 4
\* artifacts found by the walk of one run
MaxArtifacts == 2
\* language files of the source language inside one archive
MaxTargets == 2
\* characters of a language tag
MaxTagLen == 2
\* processing runs the user starts from the window
MaxStarts == 3
\* messages in the channel of the window at one time
MaxMsgs == 2
\* the largest max_retries of the configurations of the backoff computation
MaxAttempts == 65

\* the width of u64
U64Bits == 64

\* the chunk size used when batch_size is configured as 0
DefaultBatch == 20

Inv == 1..NumInv

(***************************************************************************)
(* JSON values.  A string is a sequence of characters; every other JSON    *)
(* type is the one value Other.                                            *)
(***************************************************************************)
Str(s) == [str |-> TRUE, s |-> s]
Other == [str |-> FALSE, s |-> <<>>]

\* source values an input mapping can hold: a non-string, a blank string,
\* a string with text (and leading white space)
SrcValues == {Other, Str(<<" ", " ">>), Str(<<" ", "h">>)}
\* strings the remote service can return as elements of its list
Translated == {<<"X">>, <<"Y">>}

InputMaps(n) == [1..n -> SrcValues]

\* str::trim: strip leading and trailing white space
RECURSIVE TrimStart(_)
TrimStart(s) ==
    IF s # <<>> /\ Head(s) = " " THEN TrimStart(Tail(s)) ELSE s

RECURSIVE TrimEnd(_)
TrimEnd(s) ==
    IF s # <<>> /\ s[Len(s)] = " " THEN TrimEnd(SubSeq(s, 1, Len(s) - 1)) ELSE s

Trim(s) == TrimEnd(TrimStart(s))

\* mutant: the filter tests the string without trimming it
IsPendingValue_notrim(v) == v.str /\ v.s # <<>>

\* the filter of pending_items: a string that is not empty after trim
IsPendingValue(v) == v.str /\ Trim(v.s) # <<>>

\* Map::insert and Map::remove
MapInsert(m, k, v) == [x \in DOMAIN m \cup {k} |-> IF x = k THEN v ELSE m[x]]
MapRemove(m, k) == [x \in DOMAIN m \ {k} |-> m[x]]

Min(a, b) == IF a < b THEN a ELSE b

\* the keys of a mapping in iteration order (ascending)
RECURSIVE KeySeq(_)
KeySeq(S) ==
    IF S = {} THEN <<>>
    ELSE LET k == CHOOSE x \in S : \A y \in S : x <= y
         IN <<k>> \o KeySeq(S \ {k})

RECURSIVE FilterSeq(_, _)
FilterSeq(ks, m) ==
    IF ks = <<>> THEN <<>>
    ELSE (IF IsPendingValue(m[Head(ks)]) THEN <<Head(ks)>> ELSE <<>>)
         \o FilterSeq(Tail(ks), m)

\* pending_items: the keys whose value passes the filter, in map order
pending_items(m) == FilterSeq(KeySeq(DOMAIN m), m)

\* mutant: a batch size of 0 falls back to 1
safe_batch_size_one(bs) == IF bs = 0 THEN 1 ELSE bs

safe_batch_size(bs) == IF bs = 0 THEN DefaultBatch ELSE bs

\* slice::chunks(n): split off min(n, remaining) elements until none is left
RECURSIVE chunks(_, _)
chunks(s, n) ==
    IF s = <<>> THEN <<>>
    ELSE LET k == Min(n, Len(s))
         IN <<SubSeq(s, 1, k)>> \o chunks(SubSeq(s, k + 1, Len(s)), n)

\* what translate_text_list returns: Err (a failed or cancelled call) or Ok(list)
ErrorReply == [kind |-> "error", list |-> << >>]
CancelledReply == [kind |-> "cancelled", list |-> << >>]
AbortedReply == [kind |-> "aborted", list |-> << >>]
ListReply(list) == [kind |-> "list", list |-> list]

\* history kept with a finished task: how its remote call ended
ReplyClass(reply, chunk_len) ==
    IF reply.kind # "list" THEN reply.kind
    ELSE IF Len(reply.list) = chunk_len THEN "equal" ELSE "mismatch"

\* the lists the remote service may answer a request of k texts with: every
\* list of k translated strings, one list that is too short, one too long
ReplyLists(k) ==
    [1..k -> Translated]
        \cup {[n \in 1..(k - 1) |-> <<"X">>], [n \in 1..(k + 1) |-> <<"X">>]}

\* mutant: the error of a call aborted in flight counts as a translation
TaskResult_aborted_ok(reply, chunk_len) ==
    IF reply.kind = "aborted" \/ (reply.kind = "list" /\ Len(reply.list) = chunk_len)
    THEN [some |-> TRUE, texts |-> [n \in 1..chunk_len |-> <<"X">>]]
    ELSE [some |-> FALSE, texts |-> << >>]

\* mutant: the length comparison is inverted
TaskResult_inverted(reply, chunk_len) ==
    IF reply.kind = "list" /\ Len(reply.list) # chunk_len
    THEN [some |-> TRUE, texts |-> reply.list]
    ELSE [some |-> FALSE, texts |-> << >>]

\* common.rs 83-96: Some(texts) on Ok with the chunk's length, else None
TaskResult(reply, chunk_len) ==
    IF reply.kind = "list" /\ Len(reply.list) = chunk_len
    THEN [some |-> TRUE, texts |-> reply.list]
    ELSE [some |-> FALSE, texts |-> << >>]

\* mutant: every key of the chunk receives the first text
RECURSIVE ZipInsert_first(_, _, _)
ZipInsert_first(m, keys, texts) ==
    IF keys = << >> \/ texts = << >> THEN m
    ELSE ZipInsert_first(MapInsert(m, Head(keys), Str(Head(texts))), Tail(keys), texts)

\* common.rs 106-108: keys.iter().zip(texts.iter()), insert each pair
RECURSIVE ZipInsert(_, _, _)
ZipInsert(m, keys, texts) ==
    IF keys = << >> \/ texts = << >> THEN m
    ELSE ZipInsert(MapInsert(m, Head(keys), Str(Head(texts))), Tail(keys), Tail(texts))

\* common.rs 111-113: remove every key of the chunk
RECURSIVE RemoveAll(_, _)
RemoveAll(m, keys) ==
    IF keys = << >> THEN m ELSE RemoveAll(MapRemove(m, Head(keys)), Tail(keys))

\* mutant: the keys of a failed chunk are left in the mapping
MergeResult_keep(m, keys, result) ==
    IF result.some THEN ZipInsert(m, keys, result.texts) ELSE m

\* mutant: a failed chunk clears the mapping
MergeResult_clear(m, keys, result) ==
    IF result.some THEN ZipInsert(m, keys, result.texts) ELSE << >>

\* common.rs 103-115: the merge of one joined task
MergeResult(m, keys, result) ==
    IF result.some THEN ZipInsert(m, keys, result.texts) ELSE RemoveAll(m, keys)

VARIABLES
    batch_size,     \* ctx.batch_size, shared by every invocation
    map,            \* map[i]: the input mapping of invocation i
    final_map,      \* final_map[i]: the mapping invocation i returns
    pc,             \* pc[i]: where the scheduler of invocation i stands
    batch_idx,      \* batch_idx[i]: number of chunks the for loop has taken
    tasks,          \* tasks[i]: the JoinSet, chunk number -> batch task
    permits,        \* permits available in ctx.network_semaphore
    token           \* the CancellationToken is cancelled

\* one call of send_with_retry (specification SpecRetry)
VARIABLES
    max_retries,    \* self.max_retries
    retry_delay,    \* self.retry_delay, in seconds
    attempt,        \* the local attempt counter
    call_pc,        \* where the call stands: top, inflight, sleep, done
    sent,           \* requests built and sent so far
    responses,      \* what the requests received, in order
    waits,          \* the wait_time of every sleep so far, in seconds
    logged,         \* retries announced by log_warn so far
    call_result     \* what the call returned

\* the processing of one artifact: an invocation of core_translation_pipeline
\* or of process_snbt (specification SpecPipe)
VARIABLES
    kind,               \* "mapping": a language file; "snbt": a quest document
    document,           \* the spans of the quest document
    update_existing,    \* ctx.update_existing: incremental mode
    skip_existing,      \* ctx.skip_existing
    format,             \* FileFormat of the artifact: "json" or "lang"
    src_map,            \* the source mapping
    builtin_map,        \* the builtin-recovery mapping, an Option
    target_file,        \* the file at final_path
    raw_file,           \* the file at raw_path
    pipe_pc,            \* where the invocation stands
    base_map,           \* base_map
    effects,            \* history: what the invocation has done to the outside
    run,                \* number of the invocation on this artifact
    history             \* history: how the earlier invocations ended

\* one call of get_target_filename (specification SpecName)
VARIABLES
    original_name,      \* the file name of the source artifact
    source_lang,        \* ctx.source_lang
    target_lang,        \* ctx.target_lang
    target_name         \* the name returned, an Option

\* the splice of process_snbt on the text of one document (specification
\* SpecSplice)
VARIABLES
    snbt_content,       \* content: the text of the source document
    snbt_replacements,  \* replacements: (range, key) in the order of extraction
    snbt_translated,    \* translated_map: what the scheduler returned
    new_content,        \* new_content
    splice_queue,       \* the sorted replacements the for loop has yet to take
    splice_pc           \* where the splice stands

\* one processing run over the artifacts of the input folder (specification
\* SpecRun)
VARIABLES
    artifacts,          \* the artifacts found by the walk, in order
    artifact_idx,       \* the artifact the walk has reached
    target_idx,         \* language files of the archive taken by the for loop
    run_pc,             \* where the run stands
    attempted,          \* history: the language files whose processing began
    reported            \* history: the artifacts for which a failure was reported

\* the window of the application, MyApp (specification SpecApp)
VARIABLES
    is_processing,      \* self.is_processing
    cancellation_token, \* self.cancellation_token, an Option of a run's token
    threads,            \* the processing threads spawned so far, in order
    run_tokens,         \* for every run, whether its token is cancelled
    msg_receiver        \* the messages sent and not yet received

\* the backoff computations of send_with_retry in 64-bit arithmetic
\* (specification SpecBackoff)
VARIABLES
    backoff_cfg,        \* max_retries and retry_delay of the configuration
    overflow_checks,    \* whether the build panics on arithmetic overflow
    backoff_attempt,    \* attempt
    backoff_wait,       \* the last wait computed after a 429, after a network error
    backoff_prev,       \* the wait of the same kind computed before the last one
    backoff_pc          \* "computing", or "panicked"

schedVars == <<batch_size, map, final_map, pc, batch_idx, tasks, permits>>

backoffVars == <<backoff_cfg, overflow_checks, backoff_attempt, backoff_wait,
                 backoff_prev, backoff_pc>>

appVars == <<is_processing, cancellation_token, threads, run_tokens, msg_receiver>>

runVars == <<artifacts, artifact_idx, target_idx, run_pc, attempted, reported>>

spliceVars == <<snbt_content, snbt_replacements, snbt_translated, new_content,
                splice_queue, splice_pc>>

nameVars == <<original_name, source_lang, target_lang, target_name>>

\* the inputs of the invocation
jobVars == <<kind, document, update_existing, skip_existing, format, src_map,
             builtin_map, run, history, nameVars, spliceVars, runVars, appVars, backoffVars>>

pipeVars == <<jobVars, target_file, raw_file, pipe_pc, base_map, effects>>

callVars == <<max_retries, retry_delay, attempt, call_pc, sent, responses,
              waits, logged, call_result>>

vars == <<schedVars, token, callVars, pipeVars>>

\* a file that does not exist, a file that holds the mapping m
NoFile == [exists |-> FALSE, content |-> << >>]
File(m) == [exists |-> TRUE, content |-> m]

\* Option<Map>
None == [some |-> FALSE, v |-> << >>]
Some(m) == [some |-> TRUE, v |-> m]

NoEffects ==
    [target_at_entry |-> NoFile, target_reads |-> 0, target_writes |-> 0,
     raw_writes |-> 0, builtin_lookups |-> {}]

\* no output name is modelled: final_path is the path of target_file
NoName ==
    /\ original_name = << >>
    /\ source_lang = << >>
    /\ target_lang = << >>
    /\ target_name = None

\* the text of a quest document is not modelled: the document is the
\* sequence of its spans
NoSplice ==
    /\ snbt_content = << >>
    /\ snbt_replacements = << >>
    /\ snbt_translated = << >>
    /\ new_content = << >>
    /\ splice_queue = << >>
    /\ splice_pc = "idle"

\* Option<CancellationToken>: None, the token of run r
NoToken == [some |-> FALSE, id |-> 0]
RunToken(r) == [some |-> TRUE, id |-> r]

\* ui/app.rs 24-41, MyApp::new: the window before any run is started; the
\* other specifications leave it there
NoApp ==
    /\ is_processing = FALSE
    /\ cancellation_token = NoToken
    /\ threads = << >>
    /\ run_tokens = << >>
    /\ msg_receiver = << >>

\* a u64 that is 0 or a power of two, 2^e with e < U64Bits, held as its
\* exponent
Zero64 == [zero |-> TRUE, log2 |-> 0]
Pow64(e) == [zero |-> FALSE, log2 |-> e]

\* the result of an arithmetic operation that has not overflowed
Exact(v) == [value |-> v, overflow |-> FALSE]
\* no wait has been computed
NoWait == [computed |-> FALSE, value |-> Zero64, overflow |-> FALSE]
NoWaits == [rate_limited |-> NoWait, network |-> NoWait]
NoEarlierWait == [kind |-> "network", wait |-> NoWait]

\* the backoff computations are not modelled in 64 bits
NoBackoff ==
    /\ backoff_cfg = [max_retries |-> 0, retry_delay |-> Zero64]
    /\ overflow_checks = FALSE
    /\ backoff_attempt = 0
    /\ backoff_wait = NoWaits
    /\ backoff_prev = NoEarlierWait
    /\ backoff_pc = "idle"

\* the walk over the input folder is not modelled
NoRun ==
    /\ artifacts = << >>
    /\ artifact_idx = 0
    /\ target_idx = 0
    /\ run_pc = "idle"
    /\ attempted = {}
    /\ reported = {}

\* no artifact is processed
NoArtifact ==
    /\ kind = "none"
    /\ document = << >>
    /\ update_existing = FALSE
    /\ skip_existing = FALSE
    /\ format = "json"
    /\ src_map = << >>
    /\ builtin_map = None
    /\ target_file = NoFile
    /\ raw_file = NoFile
    /\ pipe_pc = "idle"
    /\ base_map = << >>
    /\ effects = NoEffects
    /\ run = 0
    /\ history = << >>

\* no invocation of core_translation_pipeline is modelled
NoPipeline ==
    /\ NoName
    /\ NoSplice
    /\ NoRun
    /\ NoArtifact
    /\ NoApp
    /\ NoBackoff

\* no call of send_with_retry is modelled on its own
NoCall ==
    /\ max_retries = 0
    /\ retry_delay = 0
    /\ attempt = 0
    /\ call_pc = "idle"
    /\ sent = 0
    /\ responses = << >>
    /\ waits = << >>
    /\ logged = 0
    /\ call_result = "none"

\* no scheduler is modelled
NoScheduler ==
    /\ batch_size = 0
    /\ map = << >>
    /\ final_map = << >>
    /\ pc = << >>
    /\ batch_idx = << >>
    /\ tasks = << >>
    /\ permits = 0

Chunks(i) == chunks(pending_items(map[i]), safe_batch_size(batch_size))

Init ==
    /\ batch_size \in 0..MaxBatch
    /\ \E m1 \in InputMaps(MaxKeys), m2 \in InputMaps(MaxOtherKeys) :
           map = [i \in Inv |-> IF i = 1 THEN m1 ELSE m2]
    /\ final_map = [i \in Inv |-> << >>]
    /\ pc = [i \in Inv |-> "start"]
    /\ batch_idx = [i \in Inv |-> 0]
    /\ tasks = [i \in Inv |-> << >>]
    /\ permits = NetLimit
    /\ token = FALSE
    /\ NoCall
    /\ NoPipeline

\* mutant: final_map starts with the entries that are not pending only
initial_final_map_filtered(m) ==
    [k \in {x \in DOMAIN m : ~IsPendingValue(m[x])} |-> m[k]]

\* common.rs 46: let mut final_map = map.clone()
initial_final_map(m) == m

\* common.rs 30-52: filter, clone, early return when nothing is pending
Start(i) ==
    /\ pc[i] = "start"
    /\ final_map' = [final_map EXCEPT ![i] = initial_final_map(map[i])]
    /\ pc' = [pc EXCEPT ![i] =
                IF Len(pending_items(map[i])) = 0 THEN "done" ELSE "loop"]
    /\ UNCHANGED <<callVars, pipeVars>>
    /\ UNCHANGED <<batch_size, map, batch_idx, tasks, permits, token>>

\* common.rs 55-58: take the next chunk, break when the token is cancelled
LoopCheck(i) ==
    /\ pc[i] = "loop"
    /\ pc' = [pc EXCEPT ![i] =
                IF batch_idx[i] >= Len(Chunks(i)) THEN "join"
                ELSE IF token THEN "join"
                ELSE "acquire"]
    /\ UNCHANGED <<callVars, pipeVars>>
    /\ UNCHANGED <<batch_size, map, final_map, batch_idx, tasks, permits, token>>

\* mutant: one permit more than the capacity is handed out
permit_available_extra(p) == p >= 0

\* Semaphore::acquire_owned: a permit can be taken
permit_available(p) == p > 0

\* common.rs 66: no permit is free, the scheduler is suspended in the await
Suspend(i) ==
    /\ pc[i] = "acquire"
    /\ ~permit_available(permits)
    /\ pc' = [pc EXCEPT ![i] = "waiting"]
    /\ UNCHANGED <<callVars, pipeVars>>
    /\ UNCHANGED <<batch_size, map, final_map, batch_idx, tasks, permits, token>>

\* the batch task as tasks.spawn receives it (common.rs 60-61, 79-80)
NewTask(i, chunk) ==
    [st      |-> "spawned",
     attempt |-> 0,
     keys    |-> chunk,
     texts   |-> [n \in 1..Len(chunk) |-> map[i][chunk[n]].s],
     result  |-> [some |-> FALSE, texts |-> << >>],
     reply   |-> "none"]

\* common.rs 66-98: the permit is acquired and the batch task is spawned
Acquire(i) ==
    /\ pc[i] \in {"acquire", "waiting"}
    /\ permit_available(permits)
    /\ permits' = permits - 1
    /\ tasks' = [tasks EXCEPT ![i] =
                    MapInsert(@, batch_idx[i], NewTask(i, Chunks(i)[batch_idx[i] + 1]))]
    /\ batch_idx' = [batch_idx EXCEPT ![i] = @ + 1]
    /\ pc' = [pc EXCEPT ![i] = "loop"]
    /\ UNCHANGED <<callVars, pipeVars>>
    /\ UNCHANGED <<batch_size, map, final_map, token>>

\* mutant: the permit of a finished task is not given back
drop_permit_leaked(p) == p

\* common.rs 80, 98: _permit is dropped at the end of the async block
drop_permit(p) == p + 1

\* the end of the spawned async block: the result is kept for join_next and
\* _permit is dropped
Finish(i, b, reply) ==
    /\ tasks' = [tasks EXCEPT ![i][b] =
                    [@ EXCEPT !.st = "done", !.attempt = 0,
                              !.reply = ReplyClass(reply, Len(tasks[i][b].keys)),
                              !.result = TaskResult(reply, Len(tasks[i][b].keys))]]
    /\ permits' = drop_permit(permits)

\* openai.rs 47-51: the check at the top of the attempt loop, first attempt
TaskStart(i, b) ==
    /\ b \in DOMAIN tasks[i]
    /\ tasks[i][b].st = "spawned"
    /\ IF token
       THEN Finish(i, b, CancelledReply)
       ELSE /\ tasks' = [tasks EXCEPT ![i][b].st = "inflight"]
            /\ UNCHANGED permits
    /\ UNCHANGED <<callVars, pipeVars>>
    /\ UNCHANGED <<batch_size, map, final_map, pc, batch_idx, token>>

\* openai.rs 53-58: the select! resolves in favour of token.cancelled()
TaskCancelled(i, b) ==
    /\ b \in DOMAIN tasks[i]
    /\ tasks[i][b].st = "inflight"
    /\ token
    /\ Finish(i, b, AbortedReply)
    /\ UNCHANGED <<callVars, pipeVars>>
    /\ UNCHANGED <<batch_size, map, final_map, pc, batch_idx, token>>

\* openai.rs 64-66, 229-236: a 2xx response whose body parses as a list
TaskReplyList(i, b) ==
    /\ b \in DOMAIN tasks[i]
    /\ tasks[i][b].st = "inflight"
    /\ \E list \in ReplyLists(Len(tasks[i][b].keys)) :
           Finish(i, b, ListReply(list))
    /\ UNCHANGED <<callVars, pipeVars>>
    /\ UNCHANGED <<batch_size, map, final_map, pc, batch_idx, token>>

\* openai.rs 68-71, 91-94, 229-235: a status that is not retried, or a 2xx
\* response whose body is not a list of strings
TaskReplyFatal(i, b) ==
    /\ b \in DOMAIN tasks[i]
    /\ tasks[i][b].st = "inflight"
    /\ Finish(i, b, ErrorReply)
    /\ UNCHANGED <<callVars, pipeVars>>
    /\ UNCHANGED <<batch_size, map, final_map, pc, batch_idx, token>>

\* mutant: the retry limit is reached one attempt later
retry_limit_reached_late(a, m) == a > m

\* openai.rs 73, 106: attempt >= self.max_retries
retry_limit_reached(a, m) == a >= m

\* openai.rs 73-76, 106-108
retries_exhausted(a) == retry_limit_reached(a, MaxRetries)

\* openai.rs 73-119: 429, 5xx or a network error
TaskReplyRetryable(i, b) ==
    /\ b \in DOMAIN tasks[i]
    /\ tasks[i][b].st = "inflight"
    /\ IF retries_exhausted(tasks[i][b].attempt)
       THEN Finish(i, b, ErrorReply)
       ELSE /\ tasks' = [tasks EXCEPT ![i][b].st = "backoff"]
            /\ UNCHANGED permits
    /\ UNCHANGED <<callVars, pipeVars>>
    /\ UNCHANGED <<batch_size, map, final_map, pc, batch_idx, token>>

\* openai.rs 103, 118, 122, 47-51: the sleep ends, attempt += 1, next iteration
TaskWake(i, b) ==
    /\ b \in DOMAIN tasks[i]
    /\ tasks[i][b].st = "backoff"
    /\ IF token
       THEN Finish(i, b, CancelledReply)
       ELSE /\ tasks' = [tasks EXCEPT ![i][b] =
                            [@ EXCEPT !.st = "inflight", !.attempt = @ + 1]]
            /\ UNCHANGED permits
    /\ UNCHANGED <<callVars, pipeVars>>
    /\ UNCHANGED <<batch_size, map, final_map, pc, batch_idx, token>>

\* common.rs 102-117: join_next yields a finished task and its result is merged
JoinNext(i, b) ==
    /\ pc[i] = "join"
    /\ b \in DOMAIN tasks[i]
    /\ tasks[i][b].st = "done"
    /\ final_map' = [final_map EXCEPT ![i] =
                        MergeResult(@, tasks[i][b].keys, tasks[i][b].result)]
    /\ tasks' = [tasks EXCEPT ![i][b].st = "merged"]
    /\ UNCHANGED <<callVars, pipeVars>>
    /\ UNCHANGED <<batch_size, map, pc, batch_idx, permits, token>>

\* mutant: the join loop ends once every task has finished, merged or not
join_set_empty_finished(ts) == \A b \in DOMAIN ts : ts[b].st \in {"done", "merged"}

\* JoinSet::join_next returns None: no task is left in the set
join_set_empty(ts) == \A b \in DOMAIN ts : ts[b].st = "merged"

\* common.rs 102, 119
Return(i) ==
    /\ pc[i] = "join"
    /\ join_set_empty(tasks[i])
    /\ pc' = [pc EXCEPT ![i] = "done"]
    /\ UNCHANGED <<callVars, pipeVars>>
    /\ UNCHANGED <<batch_size, map, final_map, batch_idx, tasks, permits, token>>

\* ui/app.rs 114-117: the user cancels, token.cancel()
Cancel ==
    /\ ~token
    /\ token' = TRUE
    /\ UNCHANGED <<callVars, pipeVars>>
    /\ UNCHANGED <<batch_size, map, final_map, pc, batch_idx, tasks, permits>>

Next ==
    \/ \E i \in Inv : Start(i)
    \/ \E i \in Inv : LoopCheck(i)
    \/ \E i \in Inv : Suspend(i)
    \/ \E i \in Inv : Acquire(i)
    \/ \E i \in Inv, b \in 0..MaxKeys : TaskStart(i, b)
    \/ \E i \in Inv, b \in 0..MaxKeys : TaskCancelled(i, b)
    \/ \E i \in Inv, b \in 0..MaxKeys : TaskReplyList(i, b)
    \/ \E i \in Inv, b \in 0..MaxKeys : TaskReplyFatal(i, b)
    \/ \E i \in Inv, b \in 0..MaxKeys : TaskReplyRetryable(i, b)
    \/ \E i \in Inv, b \in 0..MaxKeys : TaskWake(i, b)
    \/ \E i \in Inv, b \in 0..MaxKeys : JoinNext(i, b)
    \/ \E i \in Inv : Return(i)
    \/ Cancel

Spec == Init /\ [][Next]_vars

\* the remote call of a batch task that is in flight returns: with a list,
\* with an error, or dropped by the select! when the token is cancelled
RemoteCallReturns(i, b) ==
    \/ TaskCancelled(i, b)
    \/ TaskReplyList(i, b)
    \/ TaskReplyFatal(i, b)
    \/ TaskReplyRetryable(i, b)

\* the states in which invocation i can take a step of its own up to the
\* spawning of a task: Start, LoopCheck, or Acquire with a permit free.  Each
\* of these steps is enabled in exactly these states and leaves them
CanStart(i) == pc[i] = "start"
CanCheckLoop(i) == pc[i] = "loop"
CanAcquire(i) == pc[i] \in {"acquire", "waiting"} /\ permit_available(permits)

\* the tokio runtime polls every task that can make progress, the invocation
\* itself as well as each batch task it has spawned; the semaphore wakes a
\* waiter when a permit is free; the timer of a sleep fires; every remote
\* call returns.  The weak fairness of Start, LoopCheck and Acquire is
\* stated through their enabling conditions: WF_vars(A) is []<>~ENABLED A
\* for a step that disables itself
SchedulerFairness ==
    \A i \in Inv :
        /\ []<>~CanStart(i)
        /\ []<>~CanCheckLoop(i)
        /\ []<>~CanAcquire(i)
        /\ WF_vars(Return(i))
        /\ \A b \in 0..MaxKeys :
               /\ WF_vars(JoinNext(i, b))
               /\ WF_vars(TaskStart(i, b))
               /\ WF_vars(RemoteCallReturns(i, b))
               /\ WF_vars(TaskWake(i, b))

\* invocations that contend for the permits: every entry is a string with
\* text, every batch is full
FairInit ==
    /\ Init
    /\ batch_size = MaxBatch
    /\ \A i \in Inv : \A k \in DOMAIN map[i] : map[i][k] = Str(<<" ", "h">>)

SpecFair == FairInit /\ [][Next]_vars /\ SchedulerFairness

(***************************************************************************)
(* Specification SpecRetry: one call of send_with_retry (openai.rs 40-124) *)
(* with its configuration, the responses the service gives to its          *)
(* requests, and the user who may cancel at any moment.                    *)
(***************************************************************************)
\* the HTTP statuses the service answers with
Statuses == {200, 204, 302, 400, 401, 404, 429, 500, 503}

\* http::StatusCode::is_success
is_success(status) == status >= 200 /\ status < 300

\* http::StatusCode::is_server_error
is_server_error(status) == status >= 500 /\ status < 600

\* the Retry-After header of a response: absent, or present with a text
NoHeader == [present |-> FALSE, text |-> << >>]
Header(text) == [present |-> TRUE, text |-> text]

\* texts of a Retry-After header: seconds, seconds with a sign, not a number
HeaderTexts == {<<"2">>, <<"1", "0">>, <<"+", "3">>, <<"s">>, << >>}

Digits == <<"0", "1", "2", "3", "4", "5", "6", "7", "8", "9">>

IsDigit(c) == \E n \in 1..Len(Digits) : Digits[n] = c

DigitValue(c) == (CHOOSE n \in 1..Len(Digits) : Digits[n] = c) - 1

RECURSIVE DecimalValue(_)
DecimalValue(text) ==
    IF text = << >> THEN 0
    ELSE DecimalValue(SubSeq(text, 1, Len(text) - 1)) * 10
             + DigitValue(text[Len(text)])

\* str::parse::<u64>: an optional plus sign, then one or more decimal digits
parse_u64(text) ==
    LET body == IF text # << >> /\ text[1] = "+" THEN Tail(text) ELSE text
    IN  IF body # << >> /\ \A n \in 1..Len(body) : IsDigit(body[n])
        THEN [some |-> TRUE, v |-> DecimalValue(body)]
        ELSE [some |-> FALSE, v |-> 0]

\* what request.send() resolves to: a response, or an error of the transport
HttpResponse(status, header) == [ok |-> TRUE, status |-> status, retry_after |-> header]
NetworkError == [ok |-> FALSE, status |-> 0, retry_after |-> NoHeader]

Responses ==
    {HttpResponse(st, NoHeader) : st \in Statuses}
        \cup {HttpResponse(429, Header(t)) : t \in HeaderTexts}
        \cup {NetworkError}

\* 2_u64.pow(attempt)
pow2(a) == 2 ^ a

\* mutant: the wait after a 429 does not grow with the attempts
exponential_backoff_flat(delay, a) == delay

\* openai.rs 85, 87: self.retry_delay * 2_u64.pow(attempt)
exponential_backoff(delay, a) == delay * pow2(a)

\* mutant: the Retry-After header is not taken as the wait
retry_after_wait_ignored(r, delay, a) == exponential_backoff(delay, a)

\* openai.rs 79-88: the wait after a 429
retry_after_wait(r, delay, a) ==
    IF r.retry_after.present
    THEN LET parsed == parse_u64(r.retry_after.text)
         IN  IF parsed.some THEN parsed.v ELSE exponential_backoff(delay, a)
    ELSE exponential_backoff(delay, a)

Returned(ret) == [ret |-> ret, wait |-> 0]
Retry(wait) == [ret |-> "retry", wait |-> wait]

\* mutant: a status that is neither 429 nor 5xx is retried like a 5xx
other_status_retried(r, delay) == Retry(delay)

\* openai.rs 91-94: a status that is neither 2xx, 401, 400, 429 nor 5xx
other_status(r, delay) == Returned("request_failed")

\* openai.rs 60-119: the match on the result of one request
on_result(r, a, m, delay) ==
    IF r.ok
    THEN IF is_success(r.status) THEN Returned("ok")
         ELSE IF r.status = 401 \/ r.status = 400 THEN Returned("api_error")
         ELSE IF retry_limit_reached(a, m) THEN Returned("retries_exhausted")
         ELSE IF r.status = 429 THEN Retry(retry_after_wait(r, delay, a))
         ELSE IF is_server_error(r.status) THEN Retry(delay)
         ELSE other_status(r, delay)
    ELSE IF retry_limit_reached(a, m) THEN Returned("network_retries_exhausted")
         ELSE Retry(pow2(a))

RetryInit ==
    /\ max_retries \in 0..MaxRetriesConfig
    /\ retry_delay \in 0..MaxDelay
    /\ attempt = 0
    /\ call_pc = "top"
    /\ sent = 0
    /\ responses = << >>
    /\ waits = << >>
    /\ logged = 0
    /\ call_result = "none"
    /\ token \in BOOLEAN
    /\ NoScheduler
    /\ NoPipeline

\* mutant: the token is looked at before the first attempt only
cancelled_at_top_first_only(a, t) == t /\ a = 0

\* openai.rs 48: token.is_cancelled() at the top of the loop
cancelled_at_top(a, t) == t

\* openai.rs 47-54: the top of the loop; the request is built and sent
\* unless the token is cancelled
AttemptTop ==
    /\ call_pc = "top"
    /\ IF cancelled_at_top(attempt, token)
       THEN /\ call_pc' = "done"
            /\ call_result' = "cancelled"
            /\ UNCHANGED sent
       ELSE /\ call_pc' = "inflight"
            /\ sent' = sent + 1
            /\ UNCHANGED call_result
    /\ UNCHANGED <<max_retries, retry_delay, attempt, responses, waits, logged>>
    /\ UNCHANGED <<schedVars, token, pipeVars>>

\* openai.rs 55-57: the select! resolves in favour of token.cancelled()
AttemptAborted ==
    /\ call_pc = "inflight"
    /\ token
    /\ call_pc' = "done"
    /\ call_result' = "aborted"
    /\ UNCHANGED <<max_retries, retry_delay, attempt, sent, responses, waits, logged>>
    /\ UNCHANGED <<schedVars, token, pipeVars>>

\* openai.rs 54, 60-119: request.send() resolves and its result is matched;
\* the call returns, or logs the retry and starts to sleep
AttemptResult ==
    /\ call_pc = "inflight"
    /\ \E r \in Responses :
         LET o == on_result(r, attempt, max_retries, retry_delay)
         IN  /\ responses' = Append(responses, r)
             /\ IF o.ret = "retry"
                THEN /\ call_pc' = "sleep"
                     /\ waits' = Append(waits, o.wait)
                     /\ logged' = logged + 1
                     /\ UNCHANGED call_result
                ELSE /\ call_pc' = "done"
                     /\ call_result' = o.ret
                     /\ UNCHANGED <<waits, logged>>
    /\ UNCHANGED <<max_retries, retry_delay, attempt, sent>>
    /\ UNCHANGED <<schedVars, token, pipeVars>>

\* openai.rs 103, 118, 122: the sleep ends and attempt is incremented
SleepEnds ==
    /\ call_pc = "sleep"
    /\ attempt' = attempt + 1
    /\ call_pc' = "top"
    /\ UNCHANGED <<max_retries, retry_delay, sent, responses, waits, logged, call_result>>
    /\ UNCHANGED <<schedVars, token, pipeVars>>

RetryNext ==
    \/ AttemptTop
    \/ AttemptAborted
    \/ AttemptResult
    \/ SleepEnds
    \/ Cancel

SpecRetry == RetryInit /\ [][RetryNext]_vars

\* the runtime polls the task of the call, every request resolves (with a
\* response or a transport error, the client has a timeout) and every sleep
\* ends; the user is not bound to cancel
SpecRetryFair ==
    /\ SpecRetry
    /\ WF_vars(AttemptTop)
    /\ WF_vars(AttemptResult)
    /\ WF_vars(SleepEnds)

(***************************************************************************)
(* Specification SpecPipe: one invocation of core_translation_pipeline     *)
(* (common.rs 311-425) for one artifact.  It prepares the pending set and  *)
(* the base map, calls execute_translation_batches, which is the scheduler *)
(* of Spec run as invocation Job, and persists the result.  Other          *)
(* artifacts in progress may hold permits of the network semaphore.        *)
(***************************************************************************)
\* the scheduler invocation the pipeline calls
Job == 1

\* values of a source mapping parsed from a .lang file: trimmed strings
LangValues == {Str(<< >>), Str(<<"h">>)}

\* a key whose text holds the control character U+007F, which a JSON source
\* writes as the escape \u007f, and the key whose text is the same without it
DelKey == PipeKeys + 1
DelKeyStripped == PipeKeys + 2

\* the source mappings of an artifact of the given format: up to PipeKeys
\* keys; jar.rs 77-100 parses a .lang file into trimmed strings and a JSON
\* file into any values, under keys that may hold an escaped control character
SourceMaps(fmt) ==
    UNION {[1..n -> IF fmt = "lang" THEN LangValues ELSE SrcValues] : n \in 0..PipeKeys}
    \cup (IF fmt = "lang" THEN {}
          ELSE {[k \in (1..n) \cup {DelKey} |-> IF k = DelKey THEN Str(<<" ", "h">>) ELSE v] :
                    n \in 0..(PipeKeys - 1), v \in SrcValues})

\* the target file before the invocation: absent, or left by an earlier run
ExistingFiles ==
    {NoFile} \cup {File([k \in S |-> Str(<<"E">>)]) : S \in SUBSET (1..PipeKeys)}

\* the builtin translation found in the archive, if any
BuiltinMaps ==
    {None} \cup {Some([k \in S |-> Str(<<"B">>)]) : S \in (SUBSET (1..PipeKeys)) \ {{}}}

\* Option::unwrap_or_default
unwrap_or_default(opt) == IF opt.some THEN opt.v ELSE << >>

\* common.rs 225-236: a character of a string for which char::is_control
\* holds is dropped (line feed and tab are written as escapes instead)
strip_control(k) == IF k = DelKey THEN DelKeyStripped ELSE k

\* common.rs 170-247, on a file that serde_json has written: nothing is
\* outside the strings but punctuation, the escapes inside the strings are
\* copied, and the unescaped control characters of the keys are dropped
sanitize_json_content(m) ==
    [k2 \in {strip_control(k) : k \in DOMAIN m} |->
         m[CHOOSE k \in DOMAIN m : strip_control(k) = k2]]

\* common.rs 249-283: a missing file reads as the empty mapping; a JSON file
\* is sanitized before it is parsed; the values of a .lang file are trimmed
read_map_from_file(file, fmt) ==
    IF ~file.exists THEN << >>
    ELSE IF fmt = "json" THEN sanitize_json_content(file.content)
    ELSE [k \in {x \in DOMAIN file.content : file.content[x].str} |->
              Str(Trim(file.content[k].s))]

\* common.rs 285-309: a .lang file holds the string entries only
write_map_to_file(m, fmt) ==
    File(IF fmt = "json" THEN m ELSE [k \in {x \in DOMAIN m : m[x].str} |-> m[k]])

\* mutant: a key found in the builtin mapping is translated again
builtin_has_never(builtin_entries, k) == FALSE

\* common.rs 356: builtin_entries.get(k) is Some
builtin_has(builtin_entries, k) == k \in DOMAIN builtin_entries

\* mutant: keys of the existing output are not skipped
already_present_never(final_base_map, k) == FALSE

\* common.rs 351: final_base_map.contains_key(k)
already_present(final_base_map, k) == k \in DOMAIN final_base_map

\* common.rs 349-364: the pass over the source entries
RECURSIVE resolve_entries(_, _, _, _)
resolve_entries(ks, src, builtin_entries, acc) ==
    IF ks = << >> THEN acc
    ELSE LET k == Head(ks)
         IN  IF already_present(acc.final_base_map, k)
             THEN resolve_entries(Tail(ks), src, builtin_entries, acc)
             ELSE IF builtin_has(builtin_entries, k)
             THEN resolve_entries(Tail(ks), src, builtin_entries,
                      [acc EXCEPT !.final_base_map = MapInsert(@, k, builtin_entries[k]),
                                  !.recovered_from_builtin = @ + 1,
                                  !.lookups = @ \cup {k}])
             ELSE resolve_entries(Tail(ks), src, builtin_entries,
                      [acc EXCEPT !.pending = MapInsert(@, k, src[k]),
                                  !.lookups = @ \cup {k}])

\* common.rs 339-364: incremental mode
incremental_plan(src, file, fmt, builtin) ==
    resolve_entries(KeySeq(DOMAIN src), src, unwrap_or_default(builtin),
        [pending                |-> << >>,
         final_base_map         |-> read_map_from_file(file, fmt),
         recovered_from_builtin |-> 0,
         lookups                |-> {}])

\* common.rs 398-401: full mode
full_plan(src) ==
    [pending                |-> src,
     final_base_map         |-> << >>,
     recovered_from_builtin |-> 0,
     lookups                |-> {}]

Plan ==
    IF update_existing
    THEN incremental_plan(src_map, target_file, format, builtin_map)
    ELSE full_plan(src_map)

\* mutant: an existing target is never skipped
skip_target_never(update, skip, file) == FALSE

\* common.rs 332: !update_existing && skip_existing && final_path.exists()
skip_target(update, skip, file) == ~update /\ skip /\ file.exists

\* mutant: the early return is taken only when the source is empty
nothing_new_never(plan) == FALSE

\* common.rs 366: pending.is_empty() && recovered_from_builtin == 0
nothing_new(plan) == plan.pending = << >> /\ plan.recovered_from_builtin = 0

\* what incremental mode has read by the time the plan stands
AfterPlan(e, plan) ==
    [e EXCEPT !.target_reads = IF target_file.exists THEN @ + 1 ELSE @,
              !.builtin_lookups = plan.lookups]

\* a span of a quest document: a quoted string in a title or subtitle field,
\* or inside a description block
Span(role, raw) == [role |-> role, raw |-> raw]

\* raw values of spans: text, a localisation key, a number, a dotted number
SpanValues == {<<"h">>, <<"a", ".", "b">>, <<"1">>, <<"1", ".", "1">>}

\* the quest documents, as the sequence of their spans
Documents ==
    UNION {[1..n -> {Span(r, v) : r \in {"title", "desc"}, v \in SpanValues}] :
               n \in 0..MaxSpans}

\* char::is_alphabetic on the characters of the model
is_alphabetic(c) == c \in {"a", "b", "h", "X", "Y", "E", "B"}

\* [a-zA-Z0-9_]
is_word_char(c) == is_alphabetic(c) \/ IsDigit(c) \/ c = "_"

\* snbt.rs 51: ^[a-zA-Z0-9_]+(\.[a-zA-Z0-9_]+)+$
re_trans_key(v) ==
    /\ v # << >>
    /\ \A n \in 1..Len(v) : is_word_char(v[n]) \/ v[n] = "."
    /\ \E n \in 1..Len(v) : v[n] = "."
    /\ v[1] # "." /\ v[Len(v)] # "."
    /\ \A n \in 1..(Len(v) - 1) : ~(v[n] = "." /\ v[n + 1] = ".")

\* snbt.rs 62, 83: empty after trim, or without an alphabetic character
not_worth_translating(v) ==
    Trim(v) = << >> \/ ~\E n \in 1..Len(v) : is_alphabetic(v[n])

\* the spans in the order the two passes visit them: title and subtitle
\* matches first (snbt.rs 56), then the strings of description blocks (72)
RECURSIVE SpansOfRole(_, _, _)
SpansOfRole(doc, role, n) ==
    IF n > Len(doc) THEN << >>
    ELSE (IF doc[n].role = role THEN <<n>> ELSE << >>) \o SpansOfRole(doc, role, n + 1)

VisitOrder(doc) == SpansOfRole(doc, "title", 1) \o SpansOfRole(doc, "desc", 1)

\* mutant: every span is tested against the pattern of localisation keys
first_candidate_always(counter) == TRUE

\* snbt.rs 60, 82: counter == 0, nothing has been extracted yet
first_candidate(counter) == counter = 0

\* snbt.rs 53-101: the extraction of the spans to translate
RECURSIVE extract_spans(_, _, _)
extract_spans(visit, doc, acc) ==
    IF visit = << >> THEN acc
    ELSE LET v == doc[Head(visit)].raw
         IN  IF first_candidate(acc.counter) /\ re_trans_key(v)
             THEN [acc EXCEPT !.skip_file = TRUE]
             ELSE IF not_worth_translating(v)
             THEN extract_spans(Tail(visit), doc, acc)
             ELSE extract_spans(Tail(visit), doc,
                      [acc EXCEPT !.extracted_map = MapInsert(@, acc.counter, Str(v)),
                                  !.replacements = Append(@, [span |-> Head(visit),
                                                              key |-> acc.counter]),
                                  !.counter = @ + 1])

Extraction(doc) ==
    extract_spans(VisitOrder(doc), doc,
        [skip_file |-> FALSE, counter |-> 0, extracted_map |-> << >>,
         replacements |-> << >>])

\* snbt.rs 126-136: the spans that have a string translation are replaced
splice(doc, replacements, translated_map) ==
    [n \in 1..Len(doc) |->
        IF \E x \in 1..Len(replacements) :
               /\ replacements[x].span = n
               /\ replacements[x].key \in DOMAIN translated_map
               /\ translated_map[replacements[x].key].str
        THEN LET x == CHOOSE y \in 1..Len(replacements) : replacements[y].span = n
             IN  Span(doc[n].role, translated_map[replacements[x].key].s)
        ELSE doc[n]]

\* the scheduler has not been called; other artifacts may hold permits
SchedulerNotCalled ==
    /\ batch_size \in 0..MaxBatch
    /\ map = [i \in Inv |-> << >>]
    /\ final_map = [i \in Inv |-> << >>]
    /\ pc = [i \in Inv |-> "idle"]
    /\ batch_idx = [i \in Inv |-> 0]
    /\ tasks = [i \in Inv |-> << >>]
    /\ permits \in 1..NetLimit

\* a language file handed to core_translation_pipeline
MappingInit ==
    /\ kind = "mapping"
    /\ document = << >>
    /\ update_existing \in BOOLEAN
    /\ skip_existing \in BOOLEAN
    /\ format \in {"json", "lang"}
    /\ src_map \in SourceMaps(format)
    /\ builtin_map \in BuiltinMaps
    /\ target_file \in ExistingFiles

\* a quest document handed to process_snbt, which reads ctx.skip_existing only
SnbtInit ==
    /\ kind = "snbt"
    /\ document \in Documents
    /\ update_existing = FALSE
    /\ skip_existing \in BOOLEAN
    /\ format = "snbt"
    /\ src_map = << >>
    /\ builtin_map = None
    /\ target_file \in {NoFile, File(<<[role |-> "title", raw |-> <<"E">>]>>)}

PipeInit ==
    /\ MappingInit \/ SnbtInit
    /\ raw_file = NoFile
    /\ pipe_pc = "start"
    /\ base_map = << >>
    /\ effects = [NoEffects EXCEPT !.target_at_entry = target_file]
    /\ run = 1
    /\ history = << >>
    /\ NoName
    /\ NoSplice
    /\ NoRun
    /\ NoApp
    /\ NoBackoff
    /\ SchedulerNotCalled
    /\ token = FALSE
    /\ NoCall

\* common.rs 322-335: full mode, the target exists and is skipped
SkipExisting ==
    /\ kind = "mapping"
    /\ pipe_pc = "start"
    /\ skip_target(update_existing, skip_existing, target_file)
    /\ pipe_pc' = "skipped"
    /\ UNCHANGED <<jobVars, target_file, raw_file, base_map, effects>>
    /\ UNCHANGED <<schedVars, token, callVars>>

\* common.rs 337-369: incremental mode, nothing is pending, nothing recovered
NothingToUpdate ==
    /\ kind = "mapping"
    /\ pipe_pc = "start"
    /\ ~skip_target(update_existing, skip_existing, target_file)
    /\ update_existing
    /\ nothing_new(Plan)
    /\ effects' = AfterPlan(effects, Plan)
    /\ pipe_pc' = "up_to_date"
    /\ UNCHANGED <<jobVars, target_file, raw_file, base_map>>
    /\ UNCHANGED <<schedVars, token, callVars>>

\* mutant: the pending set is never backed up
backup_needed_never(update, pending) == FALSE

\* common.rs 337, 379: the raw backup is written inside the incremental
\* branch, under if !pending.is_empty()
backup_needed(update, pending) == update /\ pending # << >>

\* common.rs 337-404: the pending set and the base map are computed, the
\* pending set is backed up in incremental mode, and the scheduler is called
BeginTranslation ==
    /\ kind = "mapping"
    /\ pipe_pc = "start"
    /\ ~skip_target(update_existing, skip_existing, target_file)
    /\ update_existing => ~nothing_new(Plan)
    /\ base_map' = Plan.final_base_map
    /\ IF backup_needed(update_existing, Plan.pending)
       THEN /\ raw_file' = File(Plan.pending)
            /\ effects' = [AfterPlan(effects, Plan) EXCEPT !.raw_writes = @ + 1]
       ELSE /\ UNCHANGED raw_file
            /\ effects' = IF update_existing THEN AfterPlan(effects, Plan) ELSE effects
    /\ map' = [map EXCEPT ![Job] = Plan.pending]
    /\ pc' = [pc EXCEPT ![Job] = "start"]
    /\ pipe_pc' = "translating"
    /\ UNCHANGED <<jobVars, target_file>>
    /\ UNCHANGED <<batch_size, final_map, batch_idx, tasks, permits, token, callVars>>

\* common.rs 387-392: fs::create_dir_all(&raw_dir)? or fs::File::create(
\* &raw_path)? returns Err: the invocation returns the error before the
\* scheduler is called, and nothing on disk has changed
BackupFails ==
    /\ kind = "mapping"
    /\ pipe_pc = "start"
    /\ ~skip_target(update_existing, skip_existing, target_file)
    /\ update_existing
    /\ ~nothing_new(Plan)
    /\ backup_needed(update_existing, Plan.pending)
    /\ effects' = AfterPlan(effects, Plan)
    /\ pipe_pc' = "failed"
    /\ UNCHANGED <<jobVars, target_file, raw_file, base_map>>
    /\ UNCHANGED <<schedVars, token, callVars>>

\* mutant: the result is saved whether the token is cancelled or not
give_up_saving_never(t) == FALSE

\* common.rs 406: token.is_cancelled() after the scheduler has returned
give_up_saving(t) == t

\* common.rs 406-409: the scheduler has returned and the token is cancelled
DiscardCancelled ==
    /\ kind = "mapping"
    /\ pipe_pc = "translating"
    /\ pc[Job] = "done"
    /\ give_up_saving(token)
    /\ pipe_pc' = "cancelled"
    /\ UNCHANGED <<jobVars, target_file, raw_file, base_map, effects>>
    /\ UNCHANGED <<schedVars, token, callVars>>

\* common.rs 411-413: base_map.insert(k, v) for every translated entry
insert_all(base, part) ==
    [k \in DOMAIN base \cup DOMAIN part |-> IF k \in DOMAIN part THEN part[k] ELSE base[k]]

\* common.rs 411-415: the translated part is merged and the target written
Persist ==
    /\ kind = "mapping"
    /\ pipe_pc = "translating"
    /\ pc[Job] = "done"
    /\ ~give_up_saving(token)
    /\ base_map' = insert_all(base_map, final_map[Job])
    /\ target_file' = write_map_to_file(base_map', format)
    /\ effects' = [effects EXCEPT !.target_writes = @ + 1]
    /\ pipe_pc' = "written"
    /\ UNCHANGED <<jobVars, raw_file>>
    /\ UNCHANGED <<schedVars, token, callVars>>

\* common.rs 411-415, 290-293: the translated part is merged, and
\* fs::create_dir_all(parent)? or fs::File::create(path)? of write_map_to_file
\* returns Err: the invocation returns the error, the target is as it was
PersistFails ==
    /\ kind = "mapping"
    /\ pipe_pc = "translating"
    /\ pc[Job] = "done"
    /\ ~give_up_saving(token)
    /\ base_map' = insert_all(base_map, final_map[Job])
    /\ pipe_pc' = "failed"
    /\ UNCHANGED <<jobVars, target_file, raw_file, effects>>
    /\ UNCHANGED <<schedVars, token, callVars>>

\* snbt.rs 37-40: the output exists and is skipped
SnbtSkipExisting ==
    /\ kind = "snbt"
    /\ pipe_pc = "start"
    /\ skip_existing /\ target_file.exists
    /\ pipe_pc' = "skipped"
    /\ UNCHANGED <<jobVars, target_file, raw_file, base_map, effects>>
    /\ UNCHANGED <<schedVars, token, callVars>>

\* snbt.rs 42-106: the document refers to localisation keys, or holds
\* nothing to translate
SnbtNothingToTranslate ==
    /\ kind = "snbt"
    /\ pipe_pc = "start"
    /\ ~(skip_existing /\ target_file.exists)
    /\ Extraction(document).skip_file \/ Extraction(document).extracted_map = << >>
    /\ pipe_pc' = "no_content"
    /\ UNCHANGED <<jobVars, target_file, raw_file, base_map, effects>>
    /\ UNCHANGED <<schedVars, token, callVars>>

\* snbt.rs 42-117: the spans are extracted and the scheduler is called
SnbtBeginTranslation ==
    /\ kind = "snbt"
    /\ pipe_pc = "start"
    /\ ~(skip_existing /\ target_file.exists)
    /\ ~Extraction(document).skip_file
    /\ Extraction(document).extracted_map # << >>
    /\ map' = [map EXCEPT ![Job] = Extraction(document).extracted_map]
    /\ pc' = [pc EXCEPT ![Job] = "start"]
    /\ pipe_pc' = "translating"
    /\ UNCHANGED <<jobVars, target_file, raw_file, base_map, effects>>
    /\ UNCHANGED <<batch_size, final_map, batch_idx, tasks, permits, token, callVars>>

\* snbt.rs 119: token.is_cancelled() after the scheduler has returned
snbt_give_up_saving(t) == t

\* snbt.rs 119-121: the scheduler has returned and the token is cancelled
SnbtDiscardCancelled ==
    /\ kind = "snbt"
    /\ pipe_pc = "translating"
    /\ pc[Job] = "done"
    /\ snbt_give_up_saving(token)
    /\ pipe_pc' = "cancelled"
    /\ UNCHANGED <<jobVars, target_file, raw_file, base_map, effects>>
    /\ UNCHANGED <<schedVars, token, callVars>>

\* snbt.rs 123-143: the translations are spliced in and the output is written
SnbtSave ==
    /\ kind = "snbt"
    /\ pipe_pc = "translating"
    /\ pc[Job] = "done"
    /\ ~snbt_give_up_saving(token)
    /\ target_file' = File(splice(document, Extraction(document).replacements,
                                  final_map[Job]))
    /\ effects' = [effects EXCEPT !.target_writes = @ + 1]
    /\ pipe_pc' = "written"
    /\ UNCHANGED <<jobVars, raw_file, base_map>>
    /\ UNCHANGED <<schedVars, token, callVars>>

PipeNext ==
    \/ SkipExisting
    \/ NothingToUpdate
    \/ BeginTranslation
    \/ DiscardCancelled
    \/ Persist
    \/ BackupFails
    \/ PersistFails
    \/ SnbtSkipExisting
    \/ SnbtNothingToTranslate
    \/ SnbtBeginTranslation
    \/ SnbtDiscardCancelled
    \/ SnbtSave
    \/ Next

SpecPipe == PipeInit /\ [][PipeNext]_vars

(***************************************************************************)
(* Successive incremental runs on one artifact (specification SpecRerun).  *)
(* The user starts the processing again on the same input and output       *)
(* folders: core_translation_pipeline is invoked again with the same       *)
(* mod_id, file name and source mapping, and finds on disk what the        *)
(* earlier invocation left there.                                          *)
(***************************************************************************)
\* how the invocation that has just ended went
RunSummary ==
    [outcome |-> pipe_pc,
     pending |-> map[Job],
     translated |-> UNION {{tasks[Job][b].keys[n] : n \in 1..Len(tasks[Job][b].keys)} :
                              b \in {c \in DOMAIN tasks[Job] : tasks[Job][c].reply = "equal"}},
     raw |-> raw_file,
     raw_written |-> effects.raw_writes > 0,
     target |-> target_file]

RerunInit ==
    /\ PipeInit
    /\ kind = "mapping"
    /\ update_existing

\* ui/app.rs 79-112, common.rs 311-335: the processing is started again with
\* a new token; final_path and raw_path are the paths of the earlier run
NextRun ==
    /\ kind = "mapping"
    /\ pipe_pc \in {"skipped", "up_to_date", "cancelled", "written"}
    /\ run < MaxRuns
    /\ run' = run + 1
    /\ history' = Append(history, RunSummary)
    /\ pipe_pc' = "start"
    /\ base_map' = << >>
    /\ effects' = [NoEffects EXCEPT !.target_at_entry = target_file]
    /\ map' = [map EXCEPT ![Job] = << >>]
    /\ final_map' = [final_map EXCEPT ![Job] = << >>]
    /\ pc' = [pc EXCEPT ![Job] = "idle"]
    /\ batch_idx' = [batch_idx EXCEPT ![Job] = 0]
    /\ tasks' = [tasks EXCEPT ![Job] = << >>]
    /\ token' = FALSE
    /\ UNCHANGED <<kind, document, update_existing, skip_existing, format, src_map,
                   builtin_map, target_file, raw_file, nameVars, spliceVars, runVars,
                   appVars, backoffVars>>
    /\ UNCHANGED <<batch_size, permits, callVars>>

RerunNext ==
    \/ NothingToUpdate
    \/ BeginTranslation
    \/ DiscardCancelled
    \/ Persist
    \/ NextRun
    \/ Next

SpecRerun == RerunInit /\ [][RerunNext]_vars

(***************************************************************************)
(* get_target_filename (specification SpecName).  File names and language  *)
(* tags are sequences of characters over an alphabet with two letters in   *)
(* both cases and the dot.                                                 *)
(***************************************************************************)
NameChars == {"e", "E", "z", "Z", "."}

\* char::to_lowercase on the alphabet
lower_char(c) == IF c = "E" THEN "e" ELSE IF c = "Z" THEN "z" ELSE c

\* str::to_lowercase
to_lowercase(str) == [n \in 1..Len(str) |-> lower_char(str[n])]

\* str::contains with a string pattern
contains(haystack, pat) ==
    \E i \in 0..(Len(haystack) - Len(pat)) :
        SubSeq(haystack, i + 1, i + Len(pat)) = pat

\* str::replace: the matches of from, found from left to right without
\* overlap, become to; an empty pattern matches before every character and
\* at the end
RECURSIVE replace(_, _, _)
replace(str, from, to) ==
    IF from = << >>
    THEN IF str = << >> THEN to
         ELSE to \o <<Head(str)>> \o replace(Tail(str), from, to)
    ELSE IF Len(str) < Len(from) THEN str
    ELSE IF SubSeq(str, 1, Len(from)) = from
    THEN to \o replace(SubSeq(str, Len(from) + 1, Len(str)), from, to)
    ELSE <<Head(str)>> \o replace(Tail(str), from, to)

\* common.rs 154-168
get_target_filename(name, source, target) ==
    LET lower_name == to_lowercase(name)
        lower_source == to_lowercase(source)
        lower_target == to_lowercase(target)
    IN  IF contains(lower_name, lower_source)
        THEN replace(replace(name, source, target), lower_source, lower_target)
        ELSE lower_target \o <<"_">> \o name

\* file names of up to MaxNameLen characters
Names == UNION {[1..n -> NameChars] : n \in 1..MaxNameLen}

\* language tags: one or two letters, in either case
Tags == UNION {[1..n -> {"e", "E", "z", "Z"}] : n \in 1..MaxTagLen}

NameInit ==
    /\ original_name \in Names
    /\ source_lang \in Tags
    /\ target_lang \in Tags
    /\ target_name = None
    /\ NoSplice
    /\ NoRun
    /\ NoArtifact
    /\ NoApp
    /\ NoBackoff
    /\ NoScheduler
    /\ token = FALSE
    /\ NoCall

\* common.rs 325: let target_name = get_target_filename(original_filename,
\* &ctx.source_lang, &ctx.target_lang)
GetTargetFilename ==
    /\ ~target_name.some
    /\ target_name' = Some(get_target_filename(original_name, source_lang, target_lang))
    /\ UNCHANGED <<original_name, source_lang, target_lang>>
    /\ UNCHANGED <<kind, document, update_existing, skip_existing, format, src_map,
                   builtin_map, run, history, target_file, raw_file, pipe_pc,
                   base_map, effects, spliceVars, runVars, appVars, backoffVars>>
    /\ UNCHANGED <<schedVars, token, callVars>>

NameNext == GetTargetFilename

SpecName == NameInit /\ [][NameNext]_vars

(***************************************************************************)
(* The splice of process_snbt on the text of a document (specification     *)
(* SpecSplice).  The text is a sequence of characters, a range is a pair   *)
(* of offsets start..end into it, and the keys are the values of counter.  *)
(***************************************************************************)
DocChars == {"a", "b"}

\* what the remote service may return for a span: nothing, one or two
\* characters, a character that JSON escapes
SpliceTexts == {<< >>, <<"X">>, <<"X", "Y">>, <<"\"">>}

ByteRange(start, end) == [start |-> start, end |-> end]

\* the ranges of the non-empty spans inside a text of length len
RangesIn(len) ==
    UNION {{ByteRange(a, b) : b \in (a + 1)..len} : a \in 0..(len - 1)}

Disjoint(r1, r2) == r1.end <= r2.start \/ r2.end <= r1.start

\* snbt.rs 56-101: the recorded spans in the order of their extraction, the
\* n-th one under the key n - 1; the matches of one regular expression do
\* not overlap
RecordedSpans(len) ==
    UNION {{[n \in 1..m |-> [range |-> rs[n], key |-> n - 1]] :
               rs \in {x \in [1..m -> RangesIn(len)] :
                          \A i, j \in 1..m : i # j => Disjoint(x[i], x[j])}} :
           m \in 0..MaxSpans}

\* the mappings the scheduler may return for m keys: a failed batch removes
\* its keys, the others hold a string
TranslatedMaps(m) ==
    UNION {[S -> {Str(t) : t \in SpliceTexts}] : S \in SUBSET (0..(m - 1))}

\* serde_json::to_string on a character
escape_char(c) ==
    IF c = "\"" THEN <<"\\", "\"">>
    ELSE IF c = "\\" THEN <<"\\", "\\">>
    ELSE <<c>>

RECURSIVE escape_chars(_)
escape_chars(str) ==
    IF str = << >> THEN << >> ELSE escape_char(Head(str)) \o escape_chars(Tail(str))

\* snbt.rs 129: serde_json::to_string(trans_val)
to_json_string(str) == <<"\"">> \o escape_chars(str) \o <<"\"">>

\* snbt.rs 128: translated_map.get(&key).and_then(|v| v.as_str())
translation_of(tm, key) ==
    IF key \in DOMAIN tm /\ tm[key].str THEN Some(tm[key].s) ELSE None

\* mutant: the replacements are taken in ascending order of start
comes_first_ascending(a, b) == a.range.start < b.range.start

\* snbt.rs 124: |a, b| b.0.start.cmp(&a.0.start)
comes_first(a, b) == a.range.start > b.range.start

\* Vec::sort_by, a stable sort: x goes behind the elements that do not come
\* after it
RECURSIVE insert_sorted(_, _)
insert_sorted(sorted, x) ==
    IF sorted = << >> THEN <<x>>
    ELSE IF comes_first(x, Head(sorted)) THEN <<x>> \o sorted
    ELSE <<Head(sorted)>> \o insert_sorted(Tail(sorted), x)

RECURSIVE sort_by_start(_)
sort_by_start(reps) ==
    IF reps = << >> THEN << >>
    ELSE insert_sorted(sort_by_start(SubSeq(reps, 1, Len(reps) - 1)), reps[Len(reps)])

\* String::replace_range panics when the range is not inside the string
range_in_bounds(str, range) == range.start <= range.end /\ range.end <= Len(str)

\* String::replace_range
replace_range(str, range, with) ==
    SubSeq(str, 1, range.start) \o with \o SubSeq(str, range.end + 1, Len(str))

SpliceInit ==
    /\ snbt_content \in UNION {[1..n -> DocChars] : n \in 1..MaxDocLen}
    /\ snbt_replacements \in RecordedSpans(Len(snbt_content))
    /\ snbt_translated \in TranslatedMaps(Len(snbt_replacements))
    /\ new_content = << >>
    /\ splice_queue = << >>
    /\ splice_pc = "sort"
    /\ NoName
    /\ NoRun
    /\ NoArtifact
    /\ NoApp
    /\ NoBackoff
    /\ NoScheduler
    /\ token = FALSE
    /\ NoCall

\* snbt.rs 124-126: the replacements are sorted and the text is cloned
SortReplacements ==
    /\ splice_pc = "sort"
    /\ splice_queue' = sort_by_start(snbt_replacements)
    /\ new_content' = snbt_content
    /\ splice_pc' = "loop"
    /\ UNCHANGED <<snbt_content, snbt_replacements, snbt_translated>>
    /\ UNCHANGED <<kind, document, update_existing, skip_existing, format, src_map,
                   builtin_map, run, history, target_file, raw_file, pipe_pc,
                   base_map, effects, nameVars, runVars, appVars, backoffVars>>
    /\ UNCHANGED <<schedVars, token, callVars>>

\* snbt.rs 127-136: one turn of the for loop
ReplaceNext ==
    /\ splice_pc = "loop"
    /\ splice_queue # << >>
    /\ LET range == Head(splice_queue).range
           trans_val == translation_of(snbt_translated, Head(splice_queue).key)
           escaped_json_string == to_json_string(trans_val.v)
       IN  IF trans_val.some /\ Len(escaped_json_string) >= 2
           THEN IF range_in_bounds(new_content, range)
                THEN /\ new_content' =
                            replace_range(new_content, range,
                                SubSeq(escaped_json_string, 2, Len(escaped_json_string) - 1))
                     /\ splice_pc' = "loop"
                ELSE /\ new_content' = new_content
                     /\ splice_pc' = "panicked"
           ELSE UNCHANGED <<new_content, splice_pc>>
    /\ splice_queue' = Tail(splice_queue)
    /\ UNCHANGED <<snbt_content, snbt_replacements, snbt_translated>>
    /\ UNCHANGED <<kind, document, update_existing, skip_existing, format, src_map,
                   builtin_map, run, history, target_file, raw_file, pipe_pc,
                   base_map, effects, nameVars, runVars, appVars, backoffVars>>
    /\ UNCHANGED <<schedVars, token, callVars>>

\* snbt.rs 137: the for loop has taken every replacement
SpliceDone ==
    /\ splice_pc = "loop"
    /\ splice_queue = << >>
    /\ splice_pc' = "done"
    /\ UNCHANGED <<snbt_content, snbt_replacements, snbt_translated, new_content,
                   splice_queue>>
    /\ UNCHANGED <<kind, document, update_existing, skip_existing, format, src_map,
                   builtin_map, run, history, target_file, raw_file, pipe_pc,
                   base_map, effects, nameVars, runVars, appVars, backoffVars>>
    /\ UNCHANGED <<schedVars, token, callVars>>

SpliceNext ==
    \/ SortReplacements
    \/ ReplaceNext
    \/ SpliceDone

SpecSplice == SpliceInit /\ [][SpliceNext]_vars

(***************************************************************************)
(* One processing run over several artifacts (specification SpecRun).  The *)
(* walk hands each artifact to its processor; an archive holds several     *)
(* language files, each of which goes through core_translation_pipeline.   *)
(* What happens to a language file is an input of the model:               *)
(*   "ok"           it is read, parsed and the pipeline returns Ok         *)
(*   "bad_json"     serde_json cannot parse it (jar.rs 101-104)            *)
(*   "unreadable"   by_name or read_to_string fails (jar.rs 66-67)         *)
(*   "pipeline_err" the pipeline returns Err: the raw backup or the output *)
(*                  cannot be written (common.rs 389-393, 415)             *)
(***************************************************************************)
TargetFates == {"ok", "bad_json", "unreadable", "pipeline_err"}

\* an archive that cannot be opened (jar.rs 21-22), or one with its language
\* files of the source language (jar.rs 25-34)
Archives ==
    {[opens |-> FALSE, targets |-> << >>]}
        \cup {[opens |-> TRUE, targets |-> t] :
                  t \in UNION {[1..n -> TargetFates] : n \in 0..MaxTargets}}

\* jar.rs 66-67, 142-154: the errors that the ? operator returns from
\* process_jar
returns_err(fate) == fate \in {"unreadable", "pipeline_err"}

RunInit ==
    /\ artifacts \in UNION {[1..n -> Archives] : n \in 1..MaxArtifacts}
    /\ artifact_idx = 0
    /\ target_idx = 0
    /\ run_pc = "walk"
    /\ attempted = {}
    /\ reported = {}
    /\ NoName
    /\ NoSplice
    /\ NoArtifact
    /\ NoApp
    /\ NoBackoff
    /\ NoScheduler
    /\ token = FALSE
    /\ NoCall

\* the variables that a step of the run leaves alone
RunUnchanged ==
    /\ UNCHANGED <<kind, document, update_existing, skip_existing, format, src_map,
                   builtin_map, run, history, target_file, raw_file, pipe_pc,
                   base_map, effects, nameVars, spliceVars, appVars, backoffVars>>
    /\ UNCHANGED <<schedVars, token, callVars>>

\* processor.rs 82-101, jar.rs 18-37: the walk hands the next artifact to
\* its processor, which opens it and collects its language files
OpenArchive ==
    /\ run_pc = "walk"
    /\ artifact_idx < Len(artifacts)
    /\ artifact_idx' = artifact_idx + 1
    /\ target_idx' = 0
    /\ run_pc' = IF artifacts[artifact_idx'].opens THEN "targets" ELSE "failed"
    /\ UNCHANGED <<artifacts, attempted, reported>>
    /\ RunUnchanged

\* jar.rs 40-155: one turn of the for loop over the language files
ProcessTarget ==
    /\ run_pc = "targets"
    /\ ~token
    /\ target_idx < Len(artifacts[artifact_idx].targets)
    /\ target_idx' = target_idx + 1
    /\ attempted' = attempted \cup {<<artifact_idx, target_idx'>>}
    /\ run_pc' = IF returns_err(artifacts[artifact_idx].targets[target_idx'])
                 THEN "failed" ELSE "targets"
    /\ UNCHANGED <<artifacts, artifact_idx, reported>>
    /\ RunUnchanged

\* jar.rs 41-43, 155-156: the loop has ended or the token is cancelled, and
\* process_jar returns Ok
ArchiveDone ==
    /\ run_pc = "targets"
    /\ token \/ target_idx = Len(artifacts[artifact_idx].targets)
    /\ run_pc' = "walk"
    /\ UNCHANGED <<artifacts, artifact_idx, target_idx, attempted, reported>>
    /\ RunUnchanged

\* processor.rs 102-106: the processor has returned Err, the walk reports it
\* for the artifact and goes on
ReportFailure ==
    /\ run_pc = "failed"
    /\ reported' = reported \cup {artifact_idx}
    /\ run_pc' = "walk"
    /\ UNCHANGED <<artifacts, artifact_idx, target_idx, attempted>>
    /\ RunUnchanged

\* processor.rs 109-116: the walk has ended
WalkDone ==
    /\ run_pc = "walk"
    /\ artifact_idx = Len(artifacts)
    /\ run_pc' = "done"
    /\ UNCHANGED <<artifacts, artifact_idx, target_idx, attempted, reported>>
    /\ RunUnchanged

RunNext ==
    \/ OpenArchive
    \/ ProcessTarget
    \/ ArchiveDone
    \/ ReportFailure
    \/ WalkDone
    \/ Cancel

SpecRun == RunInit /\ [][RunNext]_vars

(***************************************************************************)
(* The window of the application (specification SpecApp): MyApp starts a   *)
(* processing run in a thread of its own, cancels the run it holds the     *)
(* token of, and learns from a log message that a run has ended            *)
(* (ui/app.rs).  A run is known by its number, the position of its thread  *)
(* in threads.  run_processing_task is taken as a task that ends at some   *)
(* point, whether its token is cancelled or not: it tests the token        *)
(* between its steps.                                                      *)
(***************************************************************************)
\* ui/app.rs 94-98: completion_msg
completion_msg(is_update) ==
    IF is_update THEN "all update tasks done" ELSE "all translation tasks done"

\* a log message of a run that reports progress
ProgressMsg == "progress"

\* ui/app.rs 185: entry.message.contains(..) || entry.message.contains(..)
ends_processing(msg) == msg \in {completion_msg(TRUE), completion_msg(FALSE)}

Running(r) == r \in DOMAIN threads /\ threads[r].st = "running"

\* a step of the window leaves everything but the window alone
AppUnchanged ==
    /\ UNCHANGED <<kind, document, update_existing, skip_existing, format, src_map,
                   builtin_map, run, history, target_file, raw_file, pipe_pc,
                   base_map, effects, nameVars, spliceVars, runVars, backoffVars>>
    /\ UNCHANGED <<schedVars, token, callVars>>

AppInit ==
    /\ NoPipeline
    /\ NoScheduler
    /\ token = FALSE
    /\ NoCall

\* ui/app.rs 335-358, 79-112: a start button is shown while is_processing is
\* false; start_processing sets the flag, keeps a new token and spawns the
\* thread of the run
StartProcessing(is_update) ==
    /\ ~is_processing
    /\ Len(threads) < MaxStarts
    /\ is_processing' = TRUE
    /\ cancellation_token' = RunToken(Len(threads) + 1)
    /\ threads' = Append(threads, [st |-> "running", is_update |-> is_update])
    /\ run_tokens' = Append(run_tokens, FALSE)
    /\ UNCHANGED msg_receiver
    /\ AppUnchanged

\* ui/app.rs 335-339, 114-122: the cancel button is shown while is_processing
\* is true; cancel_processing cancels the token it holds and clears the flag
\* and the token
CancelProcessing ==
    /\ is_processing
    /\ run_tokens' = IF cancellation_token.some
                     THEN [run_tokens EXCEPT ![cancellation_token.id] = TRUE]
                     ELSE run_tokens
    /\ is_processing' = FALSE
    /\ cancellation_token' = NoToken
    /\ UNCHANGED <<threads, msg_receiver>>
    /\ AppUnchanged

\* message.rs 12-16: a run that is executing sends a log message
RunLogs(r) ==
    /\ Running(r)
    /\ Len(msg_receiver) < MaxMsgs
    /\ msg_receiver' = Append(msg_receiver, ProgressMsg)
    /\ UNCHANGED <<is_processing, cancellation_token, threads, run_tokens>>
    /\ AppUnchanged

\* ui/app.rs 108-109: run_processing_task returns and the thread sends the
\* completion message
RunEnds(r) ==
    /\ Running(r)
    /\ Len(msg_receiver) < MaxMsgs
    /\ threads' = [threads EXCEPT ![r].st = "ended"]
    /\ msg_receiver' = Append(msg_receiver, completion_msg(threads[r].is_update))
    /\ UNCHANGED <<is_processing, cancellation_token, run_tokens>>
    /\ AppUnchanged

\* ui/app.rs 178-191: update receives every message that has arrived; a
\* message that reports completion clears the flag and the token
Update ==
    /\ msg_receiver # << >>
    /\ IF \E n \in 1..Len(msg_receiver) : ends_processing(msg_receiver[n])
       THEN /\ is_processing' = FALSE
            /\ cancellation_token' = NoToken
       ELSE UNCHANGED <<is_processing, cancellation_token>>
    /\ msg_receiver' = << >>
    /\ UNCHANGED <<threads, run_tokens>>
    /\ AppUnchanged

AppNext ==
    \/ \E is_update \in BOOLEAN : StartProcessing(is_update)
    \/ CancelProcessing
    \/ \E r \in 1..MaxStarts : RunLogs(r)
    \/ \E r \in 1..MaxStarts : RunEnds(r)
    \/ Update

SpecApp == AppInit /\ [][AppNext]_vars

(***************************************************************************)
(* The backoff computations of send_with_retry in the arithmetic of u64    *)
(* (specification SpecBackoff).  The values are 0 and the powers of two,   *)
(* held as exponents, so that products are sums of exponents and a result  *)
(* of 2^64 or more is an overflow: the operation panics in a build with    *)
(* overflow checks and wraps to 0 in a build without.                      *)
(***************************************************************************)
\* 2_u64.pow(attempt), openai.rs 85, 87, 110
pow_u64(a) ==
    IF a < U64Bits THEN Exact(Pow64(a)) ELSE [value |-> Zero64, overflow |-> TRUE]

\* the operator * of u64, openai.rs 85, 87
mul_u64(x, y) ==
    IF x.zero \/ y.zero THEN Exact(Zero64)
    ELSE IF x.log2 + y.log2 < U64Bits THEN Exact(Pow64(x.log2 + y.log2))
    ELSE [value |-> Zero64, overflow |-> TRUE]

\* openai.rs 85, 87: self.retry_delay * 2_u64.pow(attempt); it is computed for
\* every 429, unwrap_or taking its argument evaluated
backoff_rate_limited(delay, a) ==
    LET p == pow_u64(a)
        m == mul_u64(delay, p.value)
    IN  [value |-> m.value, overflow |-> p.overflow \/ m.overflow]

\* openai.rs 110: 2_u64.pow(attempt)
backoff_network(a) == pow_u64(a)

\* config.rs 18-19: max_retries is a u32 and retry_delay a u64 read from the
\* configuration file
BackoffConfigs ==
    [max_retries : {0, 1, 2, MaxAttempts},
     retry_delay : {Zero64} \cup {Pow64(e) : e \in {0, 1, 3, U64Bits - 2, U64Bits - 1}}]

BackoffInit ==
    /\ backoff_cfg \in BackoffConfigs
    /\ overflow_checks \in BOOLEAN
    /\ backoff_attempt = 0
    /\ backoff_wait = NoWaits
    /\ backoff_prev = NoEarlierWait
    /\ backoff_pc = "computing"
    /\ NoName
    /\ NoSplice
    /\ NoRun
    /\ NoArtifact
    /\ NoApp
    /\ NoScheduler
    /\ token = FALSE
    /\ NoCall

\* openai.rs 73-122: attempt < max_retries, the response is a 429 or a
\* network error, the wait is computed, and attempt += 1; an overflow panics
\* when the build checks for it
ComputeBackoff(k) ==
    /\ backoff_pc = "computing"
    /\ backoff_attempt < backoff_cfg.max_retries
    /\ LET w == IF k = "rate_limited"
                THEN backoff_rate_limited(backoff_cfg.retry_delay, backoff_attempt)
                ELSE backoff_network(backoff_attempt)
       IN  /\ backoff_wait' = [backoff_wait EXCEPT ![k] =
                                  [computed |-> TRUE, value |-> w.value,
                                   overflow |-> w.overflow]]
           /\ backoff_prev' = [kind |-> k, wait |-> backoff_wait[k]]
           /\ backoff_pc' = IF overflow_checks /\ w.overflow
                            THEN "panicked" ELSE "computing"
    /\ backoff_attempt' = backoff_attempt + 1
    /\ UNCHANGED <<backoff_cfg, overflow_checks>>
    /\ UNCHANGED <<kind, document, update_existing, skip_existing, format, src_map,
                   builtin_map, run, history, target_file, raw_file, pipe_pc,
                   base_map, effects, nameVars, spliceVars, runVars, appVars>>
    /\ UNCHANGED <<schedVars, token, callVars>>

BackoffNext == \E k \in {"rate_limited", "network"} : ComputeBackoff(k)

SpecBackoff == BackoffInit /\ [][BackoffNext]_vars

(***************************************************************************)
(* Vocabulary of the properties.  These definitions restate the claims'    *)
(* words and do not read the operators that model the code.                *)
(***************************************************************************)
Range(f) == {f[x] : x \in DOMAIN f}

\* a string that is empty after trimming: nothing but white space
IsBlankString(s) == \A n \in 1..Len(s) : s[n] = " "

\* a translatable entry: a string that is not blank
Translatable(v) == v.str /\ ~IsBlankString(v.s)

TranslatableKeys(i) == {k \in DOMAIN map[i] : Translatable(map[i][k])}

\* ceil(n / c) for c >= 1
CeilDiv(n, c) == CHOOSE q \in 0..n : q * c >= n /\ (q = 0 \/ (q - 1) * c < n)

\* the chunk size the configuration stands for
ClaimedChunkSize == IF batch_size = 0 THEN 20 ELSE batch_size

Dispatched(i) == DOMAIN tasks[i]

\* batch tasks of invocation i inside translate_text_list
InCall(i) == {b \in Dispatched(i) : tasks[i][b].st \in {"inflight", "backoff"}}

RECURSIVE SumInCall(_)
SumInCall(S) ==
    IF S = {} THEN 0
    ELSE LET i == CHOOSE x \in S : TRUE
         IN Cardinality(InCall(i)) + SumInCall(S \ {i})

\* the keys of the dispatched chunks b of invocation i that satisfy P(task)
KeysOfTasks(i, P(_)) ==
    UNION {Range(tasks[i][b].keys) : b \in {x \in Dispatched(i) : P(tasks[i][x])}}

TaskSucceeded(t) == t.reply = "equal"
TaskFailed(t) == t.reply \in {"error", "mismatch"}
TaskAborted(t) == t.reply \in {"cancelled", "aborted"}
TaskMerged(t) == t.st = "merged"

\* every key of task t holds, in mapping m, the element of the response at
\* the key's position
HoldsResponse(m, t) ==
    \A n \in 1..Len(t.keys) :
        t.keys[n] \in DOMAIN m /\ m[t.keys[n]] = Str(t.result.texts[n])

\* concatenation of the key lists of chunks 0..(n - 1)
RECURSIVE ConcatKeys(_, _)
ConcatKeys(ts, n) ==
    IF n = 0 THEN << >> ELSE ConcatKeys(ts, n - 1) \o ts[n - 1].keys

(***************************************************************************)
(* C1: at every moment the number of batch tasks with an outstanding       *)
(* remote call, summed over all invocations sharing the semaphore, is at   *)
(* most the capacity of the semaphore.                                     *)
(***************************************************************************)
C1_NetworkLimit == SumInCall(Inv) <= NetLimit

\* the limit binds: all permits are in use by calls of one invocation while
\* another invocation is suspended waiting for a permit
C1_Witness ==
    /\ SumInCall(Inv) = NetLimit
    /\ \E i, j \in Inv : i # j /\ pc[i] = "waiting" /\ InCall(j) # {}

(***************************************************************************)
(* C2: when the remote call of a chunk returns an error or a list of the   *)
(* wrong length, all keys of the chunk are absent from the returned        *)
(* mapping, and the chunks that succeeded still hold their translations.   *)
(***************************************************************************)
C2_FailedChunkRemoved ==
    \A i \in Inv : pc[i] = "done" =>
        \A b \in Dispatched(i) : TaskFailed(tasks[i][b]) =>
            /\ Range(tasks[i][b].keys) \cap DOMAIN final_map[i] = {}
            /\ \A b2 \in Dispatched(i) \ {b} : TaskSucceeded(tasks[i][b2]) =>
                   /\ Range(tasks[i][b2].keys) \subseteq DOMAIN final_map[i]
                   /\ \A k \in Range(tasks[i][b2].keys) :
                          final_map[i][k].str /\ final_map[i][k].s \in Translated

\* a returned run with one chunk of each kind: wrong length, error, success
C2_Witness ==
    \E i \in Inv : /\ pc[i] = "done"
                   /\ \E b1, b2, b3 \in Dispatched(i) :
                          /\ tasks[i][b1].reply = "mismatch"
                          /\ tasks[i][b2].reply = "error"
                          /\ tasks[i][b3].reply = "equal"

(***************************************************************************)
(* C3: if every dispatched chunk succeeds with a list of the chunk's       *)
(* length and there is no cancellation, the returned mapping has exactly   *)
(* the keys of the input mapping.                                          *)
(***************************************************************************)
C3_KeySetPreserved ==
    \A i \in Inv :
        (/\ pc[i] = "done"
         /\ ~token
         /\ \A b \in Dispatched(i) : TaskSucceeded(tasks[i][b]))
        => DOMAIN final_map[i] = DOMAIN map[i]

\* a successful run of several chunks over a mapping that also holds an
\* entry that is not translated
C3_Witness ==
    \E i \in Inv : /\ pc[i] = "done"
                   /\ ~token
                   /\ Cardinality(Dispatched(i)) >= 2
                   /\ \A b \in Dispatched(i) : TaskSucceeded(tasks[i][b])
                   /\ TranslatableKeys(i) # DOMAIN map[i]

(***************************************************************************)
(* C4: the value stored for the N-th key of a successful chunk is the N-th *)
(* element of that chunk's response, for every position N.                 *)
(***************************************************************************)
C4_PositionCorrelation ==
    \A i \in Inv : \A b \in Dispatched(i) :
        (TaskMerged(tasks[i][b]) /\ TaskSucceeded(tasks[i][b]))
        => HoldsResponse(final_map[i], tasks[i][b])

\* two merged chunks, one with two keys whose translations differ, the other
\* with a translation that differs from the first chunk's first one
C4_Witness ==
    \E i \in Inv : /\ pc[i] = "done"
                   /\ \E b, b2 \in Dispatched(i) :
                          /\ b # b2
                          /\ TaskSucceeded(tasks[i][b])
                          /\ TaskSucceeded(tasks[i][b2])
                          /\ Len(tasks[i][b].keys) = 2
                          /\ tasks[i][b].result.texts[1] # tasks[i][b].result.texts[2]
                          /\ tasks[i][b2].result.texts[1] # tasks[i][b].result.texts[1]

(***************************************************************************)
(* C5: an entry that is not a string, or is a blank string, is in no       *)
(* request and is returned unchanged, whatever the batches' outcomes.      *)
(***************************************************************************)
C5_PassThrough ==
    \A i \in Inv : \A k \in DOMAIN map[i] :
        ~Translatable(map[i][k]) =>
            /\ \A b \in Dispatched(i) : k \notin Range(tasks[i][b].keys)
            /\ pc[i] = "done" => (k \in DOMAIN final_map[i] /\ final_map[i][k] = map[i][k])

\* a returned run over a mapping with a non-string entry and a blank string,
\* whose only chunk failed
C5_Witness ==
    \E i \in Inv : /\ pc[i] = "done"
                   /\ \E k1, k2 \in DOMAIN map[i] :
                          /\ ~map[i][k1].str
                          /\ map[i][k2].str /\ map[i][k2].s # << >>
                          /\ ~Translatable(map[i][k2])
                   /\ \E b \in Dispatched(i) : TaskFailed(tasks[i][b])

(***************************************************************************)
(* C6: without cancellation, N pending units and chunk size c (0 stands    *)
(* for 20) give exactly ceil(N / c) chunks, each non-empty and of at most  *)
(* c units, which together are the pending list in its order.              *)
(***************************************************************************)
C6_ChunkPartition ==
    \A i \in Inv : (pc[i] = "done" /\ ~token) =>
        LET n == Cardinality(TranslatableKeys(i))
            c == ClaimedChunkSize
            q == CeilDiv(n, c)
        IN /\ Dispatched(i) = 0..(q - 1)
           /\ \A b \in Dispatched(i) :
                  Len(tasks[i][b].keys) >= 1 /\ Len(tasks[i][b].keys) <= c
           /\ ConcatKeys(tasks[i], q) = KeySeq(TranslatableKeys(i))

\* three pending units in chunks of two: a full chunk and a partial one
C6_Witness ==
    \E i \in Inv : /\ pc[i] = "done"
                   /\ ~token
                   /\ batch_size = 2
                   /\ Cardinality(TranslatableKeys(i)) = 3
                   /\ Cardinality(Dispatched(i)) = 2

(***************************************************************************)
(* C7: the returned mapping depends only on the input mapping and on the   *)
(* outcomes of the chunks, not on the order in which the batch tasks       *)
(* complete and are merged.                                                *)
(***************************************************************************)
MergedOk(t) == TaskMerged(t) /\ TaskSucceeded(t)
MergedNotOk(t) == TaskMerged(t) /\ ~TaskSucceeded(t)

\* the mapping determined, key by key, by the input mapping and the set of
\* chunks merged so far with their outcomes
MergedView(i) ==
    [k \in DOMAIN map[i] \ KeysOfTasks(i, MergedNotOk) |->
        IF k \in KeysOfTasks(i, MergedOk)
        THEN LET b == CHOOSE x \in Dispatched(i) :
                          MergedOk(tasks[i][x]) /\ k \in Range(tasks[i][x].keys)
                 n == CHOOSE x \in 1..Len(tasks[i][b].keys) : tasks[i][b].keys[x] = k
             IN Str(tasks[i][b].result.texts[n])
        ELSE map[i][k]]

C7_MergeOrderIndependent ==
    \A i \in Inv : pc[i] # "start" => final_map[i] = MergedView(i)

\* a later chunk is merged while an earlier chunk, finished with the other
\* outcome, is still to be merged
C7_Witness ==
    \E i \in Inv : /\ pc[i] = "join"
                   /\ \E b, b2 \in Dispatched(i) :
                          /\ b < b2
                          /\ tasks[i][b].st = "done"
                          /\ tasks[i][b2].st = "merged"
                          /\ TaskSucceeded(tasks[i][b]) # TaskSucceeded(tasks[i][b2])

(***************************************************************************)
(* C8: once the cancellation token is set, no further chunk is dispatched; *)
(* in particular a scheduler that is suspended waiting for a network       *)
(* permit while the token is set does not dispatch the waiting chunk.      *)
(***************************************************************************)
C8_NoDispatchFromCancelledWait ==
    [][\A i \in Inv : (token /\ pc[i] = "waiting") => batch_idx'[i] = batch_idx[i]]_vars

(***************************************************************************)
(* C9: the scheduler returns only after every dispatched chunk has         *)
(* completed and its outcome is merged (translations on success, removal   *)
(* on failure), also for chunks dispatched before a cancellation; a failed *)
(* chunk does not stop the dispatch of later chunks.                       *)
(***************************************************************************)
C9_ReturnsAfterAllMerged ==
    \A i \in Inv : pc[i] = "done" =>
        /\ \A b \in Dispatched(i) :
               /\ tasks[i][b].st = "merged"
               /\ IF tasks[i][b].result.some
                  THEN HoldsResponse(final_map[i], tasks[i][b])
                  ELSE Range(tasks[i][b].keys) \cap DOMAIN final_map[i] = {}
        /\ ~token =>
               Cardinality(Dispatched(i))
                   = CeilDiv(Cardinality(TranslatableKeys(i)), ClaimedChunkSize)

\* a returned, cancelled run in which a chunk failed, a later chunk was
\* still dispatched and succeeded, and a third was cut off by the cancellation
C9_Witness ==
    \E i \in Inv : /\ pc[i] = "done"
                   /\ token
                   /\ \E b, b2, b3 \in Dispatched(i) :
                          /\ b < b2
                          /\ TaskFailed(tasks[i][b])
                          /\ TaskSucceeded(tasks[i][b2])
                          /\ TaskAborted(tasks[i][b3])

(***************************************************************************)
(* C10 as claimed: after a cancellation, the translatable keys of the      *)
(* returned mapping are exactly the keys of the chunks that completed      *)
(* successfully, each with its translated value.                           *)
(***************************************************************************)
C10_OnlyCompletedKeys ==
    \A i \in Inv : (pc[i] = "done" /\ token) =>
        /\ TranslatableKeys(i) \cap DOMAIN final_map[i] = KeysOfTasks(i, TaskSucceeded)
        /\ \A b \in Dispatched(i) :
               TaskSucceeded(tasks[i][b]) => HoldsResponse(final_map[i], tasks[i][b])

(***************************************************************************)
(* C10 as amended: after a cancellation, the translatable keys of the      *)
(* returned mapping are the keys of the chunks that completed successfully,*)
(* each with its translated value, and the keys of the chunks that were    *)
(* never dispatched, each with its source text; the keys of chunks that    *)
(* failed or were aborted by the cancellation are absent.                  *)
(***************************************************************************)
NeverDispatchedKeys(i) ==
    TranslatableKeys(i) \ UNION {Range(tasks[i][b].keys) : b \in Dispatched(i)}

C10_CompletedAndUndispatchedKeys ==
    \A i \in Inv : (pc[i] = "done" /\ token) =>
        /\ TranslatableKeys(i) \cap DOMAIN final_map[i]
               = KeysOfTasks(i, TaskSucceeded) \cup NeverDispatchedKeys(i)
        /\ \A b \in Dispatched(i) :
               TaskSucceeded(tasks[i][b]) => HoldsResponse(final_map[i], tasks[i][b])
        /\ \A k \in NeverDispatchedKeys(i) : final_map[i][k] = map[i][k]
        /\ (KeysOfTasks(i, TaskFailed) \cup KeysOfTasks(i, TaskAborted))
               \cap DOMAIN final_map[i] = {}

\* a cancelled run with a completed chunk, an aborted chunk and a chunk that
\* was never dispatched
C10_Witness ==
    \E i \in Inv : /\ pc[i] = "done"
                   /\ token
                   /\ NeverDispatchedKeys(i) # {}
                   /\ \E b, b2 \in Dispatched(i) :
                          TaskSucceeded(tasks[i][b]) /\ TaskAborted(tasks[i][b2])

(***************************************************************************)
(* Vocabulary of the properties of the processing of one artifact.         *)
(***************************************************************************)
\* the target is the file it was when the invocation began, and the
\* invocation has not written it
TargetUntouched ==
    target_file = effects.target_at_entry /\ effects.target_writes = 0

RawBackupUntouched == raw_file = NoFile /\ effects.raw_writes = 0

\* the scheduler was not called, so no batch was dispatched and no request sent
NoRemoteCall == pc[Job] = "idle" /\ Dispatched(Job) = {}

SchedulerReturned == pipe_pc = "translating" /\ pc[Job] = "done"

\* keys of the existing output, keys of the builtin-recovery mapping
ExistingKeys == DOMAIN effects.target_at_entry.content
BuiltinKeys == IF builtin_map.some THEN DOMAIN builtin_map.v ELSE {}

\* keys handed to the scheduler, keys of the batches it dispatched
PendingKeys == DOMAIN map[Job]
SentKeys == UNION {Range(tasks[Job][b].keys) : b \in Dispatched(Job)}

(***************************************************************************)
(* C11: when the scheduler has returned to core_translation_pipeline or to *)
(* process_snbt and the token is cancelled, the next step of the           *)
(* invocation ends it without touching the target, and an invocation that  *)
(* ended as cancelled has neither created nor modified the target.         *)
(***************************************************************************)
C11_CancelledDiscards ==
    /\ [](pipe_pc \in {"translating", "cancelled"} => TargetUntouched)
    /\ [][(SchedulerReturned /\ token)
          => (pipe_pc' = "cancelled" /\ target_file' = target_file
              /\ effects' = effects)]_vars

\* a batch was translated and merged by the scheduler, the token was
\* cancelled, and the invocation ended with the existing target as it was
C11_Witness ==
    /\ pipe_pc = "cancelled"
    /\ kind = "mapping"
    /\ \E b \in Dispatched(Job) : TaskSucceeded(tasks[Job][b])
    /\ \E k \in DOMAIN final_map[Job] :
           final_map[Job][k].str /\ final_map[Job][k].s \in Translated
    /\ target_file.exists
    /\ TargetUntouched

(***************************************************************************)
(* Vocabulary of the properties of send_with_retry.                        *)
(***************************************************************************)
Is2xx(r) == r.ok /\ r.status \in 200..299

\* a failure the retry policy covers: 429, 5xx, or an error of the transport
RetryableFailure(r) == ~r.ok \/ r.status = 429 \/ r.status \in 500..599

\* a response with a status that is neither 2xx nor covered by the policy
NotRetriedStatus(r) == r.ok /\ ~Is2xx(r) /\ ~RetryableFailure(r)

CallReturned == call_pc = "done"

CallError ==
    {"api_error", "request_failed", "retries_exhausted", "network_retries_exhausted"}

\* Retry-After texts that are a plain number of seconds
SecondsOfHeader == [t \in {<<"2">>, <<"1", "0">>} |-> IF t = <<"2">> THEN 2 ELSE 10]

(***************************************************************************)
(* C12: with max_retries = M one call of send_with_retry sends at most     *)
(* M + 1 requests, HTTP failures and network errors count against the same *)
(* M retries, a retryable failure of request M + 1 makes the call return a *)
(* retries-exhausted error, and the call returns when every request        *)
(* resolves.                                                               *)
(***************************************************************************)
C12_RequestsBounded ==
    /\ sent <= max_retries + 1
    /\ Len(responses) <= sent
    /\ logged <= max_retries
    /\ Cardinality({n \in 1..Len(responses) : RetryableFailure(responses[n])})
           <= max_retries + 1
    /\ (Len(responses) = max_retries + 1
            /\ RetryableFailure(responses[max_retries + 1]))
       => /\ CallReturned
          /\ call_result \in {"retries_exhausted", "network_retries_exhausted"}

C12_BoundedAndTerminates == []C12_RequestsBounded /\ <>CallReturned

\* the retries are used up by a network error and an HTTP failure together
C12_Witness ==
    /\ CallReturned
    /\ max_retries = MaxRetriesConfig
    /\ sent = max_retries + 1
    /\ call_result = "retries_exhausted"
    /\ \E n \in 1..Len(responses) : ~responses[n].ok
    /\ \E n \in 1..Len(responses) : responses[n].ok /\ responses[n].status = 429

(***************************************************************************)
(* C13: a response whose status is 401, 400 or any other status that is    *)
(* neither 2xx, 429 nor 5xx ends the call with an error at once: it is the *)
(* last response, no request follows it and no wait follows it.            *)
(***************************************************************************)
C13_NotRetriedStatusReturnsAtOnce ==
    \A n \in 1..Len(responses) :
        NotRetriedStatus(responses[n])
        => /\ n = Len(responses)
           /\ CallReturned
           /\ call_result \in CallError
           /\ sent = n
           /\ Len(waits) = n - 1
           /\ logged = n - 1

\* a 404 on the first attempt with all retries left
C13_Witness ==
    /\ CallReturned
    /\ max_retries = MaxRetriesConfig
    /\ Len(responses) = 1
    /\ responses[1].ok /\ responses[1].status = 404
    /\ waits = << >>

(***************************************************************************)
(* C14: when the first request receives 429 with Retry-After: s and the    *)
(* second receives a 2xx response, the call returns success after exactly  *)
(* two requests, one logged retry and one wait of s seconds; a 2xx         *)
(* response always ends the loop.                                          *)
(***************************************************************************)
C14_RetryAfterThenSuccess ==
    /\ \A n \in 1..Len(responses) :
           Is2xx(responses[n])
           => n = Len(responses) /\ CallReturned /\ call_result = "ok" /\ sent = n
    /\ (/\ Len(responses) >= 2
        /\ responses[1].ok /\ responses[1].status = 429
        /\ responses[1].retry_after.present
        /\ responses[1].retry_after.text \in DOMAIN SecondsOfHeader
        /\ Is2xx(responses[2]))
       => /\ CallReturned
          /\ call_result = "ok"
          /\ sent = 2
          /\ logged = 1
          /\ waits = <<SecondsOfHeader[responses[1].retry_after.text]>>

C14_Witness ==
    /\ CallReturned
    /\ call_result = "ok"
    /\ Len(responses) = 2
    /\ responses[1] = HttpResponse(429, Header(<<"1", "0">>))
    /\ Is2xx(responses[2])
    /\ waits = <<10>>

(***************************************************************************)
(* C15: at the top of every attempt, the first one and every retry, a      *)
(* cancelled token makes the call return a cancellation error, and no      *)
(* request is built or sent.                                               *)
(***************************************************************************)
C15_CancelledBeforeAttempt ==
    [][(call_pc = "top" /\ token)
       => (call_pc' = "done" /\ call_result' = "cancelled" /\ sent' = sent)]_vars

\* the call is cancelled at the top of a retry
C15_Witness ==
    /\ CallReturned
    /\ call_result = "cancelled"
    /\ attempt >= 1
    /\ sent = attempt

(***************************************************************************)
(* C16: a call whose request is in flight when the token is cancelled, and *)
(* whose wait is ended by the cancellation, returns the cancellation error *)
(* without another attempt; the scheduler merges its batch as failed, so   *)
(* the keys of the batch are absent from the returned mapping.             *)
(***************************************************************************)
C16_AbortedInFlightRemoved ==
    \A i \in Inv : \A b \in Dispatched(i) :
        tasks[i][b].reply = "aborted"
        => /\ token
           /\ tasks[i][b].st \in {"done", "merged"}
           /\ ~tasks[i][b].result.some
           /\ TaskMerged(tasks[i][b])
              => Range(tasks[i][b].keys) \cap DOMAIN final_map[i] = {}
           /\ pc[i] = "done" => TaskMerged(tasks[i][b])

\* an invocation has returned; one batch was aborted in flight and its keys
\* are gone, another batch had succeeded before and is kept
C16_Witness ==
    \E i \in Inv :
        /\ pc[i] = "done"
        /\ \E b, b2 \in Dispatched(i) :
               /\ tasks[i][b].reply = "aborted"
               /\ TaskSucceeded(tasks[i][b2])
               /\ Range(tasks[i][b].keys) \cap DOMAIN final_map[i] = {}
               /\ Range(tasks[i][b2].keys) \subseteq DOMAIN final_map[i]

(***************************************************************************)
(* C17: in full mode with skip_existing on and the target present, the     *)
(* invocation of core_translation_pipeline ends as skipped: it has not     *)
(* read the target, has called no remote service and has written neither   *)
(* the target nor a raw backup.                                            *)
(***************************************************************************)
C17_SkipExistingTouchesNothing ==
    (/\ kind = "mapping"
     /\ pipe_pc # "start"
     /\ ~update_existing /\ skip_existing
     /\ effects.target_at_entry.exists)
    => /\ pipe_pc = "skipped"
       /\ effects.target_reads = 0
       /\ NoRemoteCall
       /\ TargetUntouched
       /\ RawBackupUntouched

\* skipped although the source holds a key that could be translated
C17_Witness ==
    /\ kind = "mapping"
    /\ pipe_pc = "skipped"
    /\ \E k \in DOMAIN src_map : Translatable(src_map[k])
    /\ builtin_map.some

(***************************************************************************)
(* C18: when core_translation_pipeline reaches scheduling, no key is both  *)
(* pending and in the base map, and every source key whose value is a      *)
(* non-empty string is pending or in the base map.                         *)
(***************************************************************************)
C18_PendingBaseDisjointCover ==
    (kind = "mapping" /\ pipe_pc \in {"translating", "cancelled"})
    => /\ PendingKeys \cap DOMAIN base_map = {}
       /\ {k \in DOMAIN src_map : src_map[k].str /\ src_map[k].s # << >>}
              \subseteq PendingKeys \cup DOMAIN base_map

\* incremental mode with one key pending and another in the base map
C18_Witness ==
    /\ kind = "mapping"
    /\ pipe_pc = "translating"
    /\ update_existing
    /\ PendingKeys # {}
    /\ \E k \in DOMAIN src_map : k \in DOMAIN base_map /\ src_map[k].str

C20_NothingNewTouchesNothing ==
    (/\ kind = "mapping" /\ update_existing
     /\ pipe_pc # "start"
     /\ DOMAIN src_map \subseteq ExistingKeys)
    => /\ pipe_pc = "up_to_date"
       /\ TargetUntouched
       /\ RawBackupUntouched
       /\ NoRemoteCall

\* the source has keys, all of them in the existing output, and the builtin
\* mapping has them too
C20_Witness ==
    /\ kind = "mapping" /\ update_existing
    /\ pipe_pc = "up_to_date"
    /\ src_map # << >>
    /\ DOMAIN src_map \subseteq BuiltinKeys
    /\ effects.target_reads = 1

(***************************************************************************)
(* Vocabulary of the properties of the permits.                            *)
(***************************************************************************)
\* the batch tasks, of all invocations in S, whose state is in sts
RECURSIVE CountTasks(_, _)
CountTasks(S, sts) ==
    IF S = {} THEN 0
    ELSE LET i == CHOOSE x \in S : TRUE
         IN  Cardinality({b \in Dispatched(i) : tasks[i][b].st \in sts})
                 + CountTasks(S \ {i}, sts)

\* permits that are not available in the semaphore
PermitsHeld == NetLimit - permits

(***************************************************************************)
(* C29: a batch task holds its permit only while a remote call of the task *)
(* is outstanding; a task that sleeps in backoff between two attempts      *)
(* holds no permit, so the permits held are at most the tasks that have    *)
(* been handed a permit and are not in backoff.                            *)
(***************************************************************************)
C29_NoPermitDuringBackoff ==
    PermitsHeld <= CountTasks(Inv, {"spawned", "inflight"})

(***************************************************************************)
(* C30: the permit acquired for a chunk is given back when the task of the *)
(* chunk ends, however it ends: the permits held by the running tasks and  *)
(* the permits available add up to the capacity in every state, and with   *)
(* no task running all permits are available.                              *)
(***************************************************************************)
C30_PermitsConserved ==
    /\ permits \in 0..NetLimit
    /\ PermitsHeld = CountTasks(Inv, {"spawned", "inflight", "backoff"})
    /\ CountTasks(Inv, {"spawned", "inflight", "backoff"}) = 0 => permits = NetLimit

\* tasks have ended with a translation, with a failure and by cancellation,
\* every invocation has returned, and all permits are back
C30_Witness ==
    /\ \A i \in Inv : pc[i] = "done"
    /\ permits = NetLimit
    /\ \E i, j, k \in Inv :
           /\ \E b \in Dispatched(i) : TaskSucceeded(tasks[i][b])
           /\ \E b \in Dispatched(j) : TaskFailed(tasks[j][b])
           /\ \E b \in Dispatched(k) : TaskAborted(tasks[k][b])

(***************************************************************************)
(* C21: in incremental mode with a non-empty pending set the raw backup is *)
(* on disk from the moment the scheduler is called, so before any batch is *)
(* dispatched; it holds exactly the source keys that are neither in the    *)
(* existing output nor in the builtin mapping, each with its source value; *)
(* and it is still there, unchanged, when the invocation has ended as      *)
(* cancelled or has saved a result with failed batches.                    *)
(***************************************************************************)
C21_RawBackupBeforeCalls ==
    (kind = "mapping" /\ update_existing /\ PendingKeys # {}
         /\ pipe_pc \in {"translating", "cancelled", "written"})
    => /\ raw_file.exists
       /\ effects.raw_writes = 1
       /\ DOMAIN raw_file.content
              = DOMAIN src_map \ (ExistingKeys \cup BuiltinKeys)
       /\ \A k \in DOMAIN raw_file.content : raw_file.content[k] = src_map[k]
       /\ raw_file.content = map[Job]

\* the invocation was cancelled after a batch had been sent, and the backup
\* of the two pending keys is on disk
C21_Witness ==
    /\ kind = "mapping"
    /\ update_existing
    /\ pipe_pc = "cancelled"
    /\ Cardinality(PendingKeys) = 2
    /\ \E b \in Dispatched(Job) : TaskAborted(tasks[Job][b])
    /\ raw_file = File(map[Job])

(***************************************************************************)
(* Vocabulary of the claims about successive runs.                         *)
(***************************************************************************)
\* the runs before the current one
EarlierRuns == 1..Len(history)

\* the current run has written its own raw backup
WroteOwnSnapshot == effects.raw_writes > 0

(***************************************************************************)
(* C22: the snapshot that an earlier incremental run wrote to the raw      *)
(* backup sink is still on disk, unmodified, after a later run of the same *)
(* artifact has written its own snapshot.                                  *)
(***************************************************************************)
C22_EarlierSnapshotKept ==
    \A n \in EarlierRuns :
        (history[n].raw_written /\ WroteOwnSnapshot)
        => raw_file.exists /\ raw_file.content = history[n].raw.content

\* the run before the current one saved its result, and every batch of it
\* had succeeded: every translatable pending key came back translated
PreviousRunSucceeded ==
    /\ history # << >>
    /\ LET last == history[Len(history)]
       IN  /\ last.outcome = "written"
           /\ \A k \in DOMAIN last.pending :
                  Translatable(last.pending[k]) => k \in last.translated

(***************************************************************************)
(* C23: an incremental run that follows, on the same source mapping, an    *)
(* incremental run all of whose batches succeeded finds nothing pending:   *)
(* it calls no scheduler, sends no batch, writes no raw backup and leaves  *)
(* the artifact as the earlier run wrote it.                               *)
(***************************************************************************)
C23_SecondRunIdle ==
    PreviousRunSucceeded
    => /\ pipe_pc \in {"start", "up_to_date"}
       /\ NoRemoteCall
       /\ TargetUntouched
       /\ ~WroteOwnSnapshot

(***************************************************************************)
(* Vocabulary of the claim about output names.                             *)
(***************************************************************************)
SameLetter(c, d) ==
    \/ c = d
    \/ {c, d} = {"e", "E"}
    \/ {c, d} = {"z", "Z"}

\* tag occurs in str when the case of the letters is ignored
OccursIgnoringCase(str, tag) ==
    \E i \in 0..(Len(str) - Len(tag)) :
        \A n \in 1..Len(tag) : SameLetter(str[i + n], tag[n])

(***************************************************************************)
(* C28: when the name holds the source tag, in whatever case, the name     *)
(* returned holds the target tag and, if the two tags differ, is not the   *)
(* original name; otherwise the name returned is the original name behind  *)
(* a prefix that holds the target tag.                                     *)
(***************************************************************************)
C28_TargetFilename ==
    target_name.some
    => LET r == target_name.v
       IN  IF OccursIgnoringCase(original_name, source_lang)
           THEN /\ OccursIgnoringCase(r, target_lang)
                /\ source_lang # target_lang => r # original_name
           ELSE \E n \in 1..Len(r) :
                    /\ SubSeq(r, n + 1, Len(r)) = original_name
                    /\ OccursIgnoringCase(SubSeq(r, 1, n), target_lang)

(***************************************************************************)
(* Vocabulary of the claims about the splice.                              *)
(***************************************************************************)
\* a text between quotes as JSON writes it, without the quotes
RECURSIVE JsonEscaped(_)
JsonEscaped(str) ==
    IF str = << >> THEN << >>
    ELSE (IF Head(str) \in {"\"", "\\"} THEN <<"\\", Head(str)>> ELSE <<Head(str)>>)
             \o JsonEscaped(Tail(str))

RecordedAt(p) == {n \in DOMAIN snbt_replacements : snbt_replacements[n].range.start = p}

HasTranslation(n) == snbt_replacements[n].key \in DOMAIN snbt_translated

TranslationOfSpan(n) == snbt_translated[snbt_replacements[n].key].s

SourceText(n) ==
    SubSeq(snbt_content, snbt_replacements[n].range.start + 1,
           snbt_replacements[n].range.end)

\* the source text from offset p on, read from left to right, in which each
\* recorded span is replaced by its escaped translation if it has one (a
\* non-empty one when nonEmptyOnly) and copied otherwise
RECURSIVE Rebuilt(_, _)
Rebuilt(p, nonEmptyOnly) ==
    IF p >= Len(snbt_content) THEN << >>
    ELSE IF RecordedAt(p) = {} THEN <<snbt_content[p + 1]>> \o Rebuilt(p + 1, nonEmptyOnly)
    ELSE LET n == CHOOSE x \in RecordedAt(p) : TRUE
             piece == IF HasTranslation(n)
                         /\ (nonEmptyOnly => TranslationOfSpan(n) # << >>)
                      THEN JsonEscaped(TranslationOfSpan(n))
                      ELSE SourceText(n)
         IN  piece \o Rebuilt(snbt_replacements[n].range.end, nonEmptyOnly)

SpliceEnded == splice_pc = "done"

C25_EmptyTranslationKeepsSpan ==
    SpliceEnded => new_content = Rebuilt(0, TRUE)

(***************************************************************************)
(* Vocabulary of the claim about localisation keys in quest documents.     *)
(***************************************************************************)
\* v reads as a dotted identifier: words of letters, digits and underscores
\* joined by single dots, at least two of them
RECURSIVE Words(_, _)
Words(v, inWord) ==
    IF v = << >> THEN IF inWord THEN 1 ELSE -100
    ELSE IF Head(v) = "." THEN IF inWord THEN 1 + Words(Tail(v), FALSE) ELSE -100
    ELSE IF Head(v) \in {"a", "b", "h", "1", "_"} THEN Words(Tail(v), TRUE)
    ELSE -100

DottedIdentifier(v) == Words(v, FALSE) >= 2

\* a span that is extracted when the extraction reaches it: its value is
\* not blank and holds a letter
Extractable(v) == \E n \in 1..Len(v) : v[n] \in {"a", "b", "h"}

\* the spans of the document in the order in which process_snbt visits
\* them: titles and subtitles, then the strings of the descriptions
Visited ==
    LET titles == {n \in 1..Len(document) : document[n].role = "title"}
        Before(m, n) ==
            \/ m \in titles /\ n \notin titles
            \/ (m \in titles <=> n \in titles) /\ m < n
    IN  [before |-> [m \in 1..Len(document) |-> {n \in 1..Len(document) : Before(n, m)}]]

\* the span that process_snbt visits first
FirstVisited == {n \in 1..Len(document) : Visited.before[n] = {}}

\* a span that reads as a dotted identifier is visited before any span has
\* been recorded for translation
KeyBeforeFirstRecorded ==
    \E n \in 1..Len(document) :
        /\ DottedIdentifier(document[n].raw)
        /\ \A m \in Visited.before[n] : ~Extractable(document[m].raw)

HoldsText == \E n \in 1..Len(document) : Extractable(document[n].raw)

SnbtProcessed ==
    kind = "snbt" /\ pipe_pc # "start" /\ pipe_pc # "skipped"

SnbtSkippedWhole == pipe_pc = "no_content" /\ NoRemoteCall /\ TargetUntouched

SnbtNotSkipped == pipe_pc \in {"translating", "cancelled", "written"}

(***************************************************************************)
(* C26, as stated: a document whose first span reads as a dotted           *)
(* identifier is skipped as a whole, with no remote call and no output     *)
(* written; a document that holds text to translate and whose first span   *)
(* does not read so is not skipped, whatever its later spans hold.         *)
(***************************************************************************)
C26_OnlyFirstSpanCounts ==
    SnbtProcessed
    => \A n \in FirstVisited :
           /\ DottedIdentifier(document[n].raw) => SnbtSkippedWhole
           /\ (~DottedIdentifier(document[n].raw) /\ HoldsText) => SnbtNotSkipped

(***************************************************************************)
(* C26, amended: a document in which a span that reads as a dotted         *)
(* identifier is visited before any span has been recorded for translation *)
(* is skipped as a whole, with no remote call and no output written; a     *)
(* document that holds text to translate and has no such span is not       *)
(* skipped, whatever the spans visited after the first recorded one hold.  *)
(***************************************************************************)
C26_KeyBeforeFirstRecordedSkips ==
    SnbtProcessed
    => /\ KeyBeforeFirstRecorded => SnbtSkippedWhole
       /\ (~KeyBeforeFirstRecorded /\ HoldsText) => SnbtNotSkipped

\* a document skipped for the key in its second span, the first span
\* holding no letter
C26_Witness ==
    /\ SnbtProcessed
    /\ SnbtSkippedWhole
    /\ HoldsText
    /\ \E n \in FirstVisited : ~DottedIdentifier(document[n].raw)
    /\ KeyBeforeFirstRecorded

\* a document translated and written although a span visited after the
\* first recorded one reads as a dotted identifier
C26_WitnessLater ==
    /\ SnbtProcessed
    /\ pipe_pc = "written"
    /\ ~KeyBeforeFirstRecorded
    /\ \E m \in 1..Len(document) : DottedIdentifier(document[m].raw)

(***************************************************************************)
(* Vocabulary of the claim about failures of single artifacts.             *)
(***************************************************************************)
\* the language files of the artifacts of the run
LanguageFiles ==
    {<<a, n>> : a \in 1..Len(artifacts), n \in 1..MaxTargets} \cap
        UNION {{<<a, n>> : n \in 1..Len(artifacts[a].targets)} : a \in 1..Len(artifacts)}

\* the language file fails as an artifact: its source cannot be read, or its
\* raw backup or its output cannot be written
FailsAsArtifact(f) ==
    artifacts[f[1]].targets[f[2]] \in {"unreadable", "pipeline_err"}

RunEnded == run_pc = "done"

(***************************************************************************)
(* C27: when a run that was not cancelled has ended, the processing of     *)
(* every language file of every artifact has begun, whichever other        *)
(* language files failed, those of the same archive included, and every    *)
(* failure has been reported for its artifact.                             *)
(***************************************************************************)
C27_FailureDoesNotStopTheRest ==
    (RunEnded /\ ~token)
    => /\ \A f \in LanguageFiles : f \in attempted
       /\ \A f \in LanguageFiles : FailsAsArtifact(f) => f[1] \in reported
       /\ \A a \in 1..Len(artifacts) : ~artifacts[a].opens => a \in reported

(***************************************************************************)
(* Vocabulary of the claims about the waits of send_with_retry.            *)
(***************************************************************************)
\* the Retry-After texts that parse as an unsigned integer, with their value
UnsignedSeconds ==
    [t \in {<<"2">>, <<"1", "0">>, <<"+", "3">>} |->
        IF t = <<"2">> THEN 2 ELSE IF t = <<"1", "0">> THEN 10 ELSE 3]

RECURSIVE TwoToThe(_)
TwoToThe(a) == IF a = 0 THEN 1 ELSE 2 * TwoToThe(a - 1)

\* the wait the retry policy names for failure r after a failed attempts
PolicyWait(r, a) ==
    IF ~r.ok THEN TwoToThe(a)
    ELSE IF r.status = 429
    THEN IF r.retry_after.present /\ r.retry_after.text \in DOMAIN UnsignedSeconds
         THEN UnsignedSeconds[r.retry_after.text]
         ELSE retry_delay * TwoToThe(a)
    ELSE retry_delay

C31_WitnessSecond ==
    /\ retry_delay = 2
    /\ Len(waits) = 2
    /\ responses[2] = HttpResponse(429, Header(<<"s">>))
    /\ waits[2] = 4

(***************************************************************************)
(* C32: a call that sleeps in backoff when the token is cancelled does not *)
(* sleep on: its next step returns the cancellation error, and it sends no *)
(* further request.                                                        *)
(***************************************************************************)
C32_CancelAbortsBackoff ==
    [][(call_pc = "sleep" /\ token /\ call_pc' # call_pc)
       => (call_pc' = "done" /\ call_result' = "cancelled" /\ sent' = sent)]_vars

(***************************************************************************)
(* Vocabulary of the claim about the states of an invocation of            *)
(* core_translation_pipeline.  The states Resolving, Pending and Merged    *)
(* are passed within one step of the model: an invocation that has left    *)
(* NotStarted without being skipped has resolved its entries, one that is  *)
(* in Scheduling has had a pending set, one that is Persisted has merged.  *)
(***************************************************************************)
PipelineState ==
    [p \in {"start", "skipped", "up_to_date", "translating", "cancelled",
            "written", "failed"} |->
        CASE p = "start" -> "NotStarted"
          [] p = "skipped" -> "Skipped"
          [] p = "up_to_date" -> "NoOpComplete"
          [] p = "translating" -> "Scheduling"
          [] p = "cancelled" -> "Cancelled"
          [] p = "written" -> "Persisted"
          [] p = "failed" -> "Failed"]

\* the steps of the state machine, the states between them left out
StatedSteps ==
    {<<"NotStarted", "Skipped">>, <<"NotStarted", "NoOpComplete">>,
     <<"NotStarted", "Scheduling">>, <<"Scheduling", "Cancelled">>,
     <<"Scheduling", "Persisted">>}

\* the steps on which the invocation returns an input/output error: from
\* Pending when the raw backup cannot be created, from Merged when the
\* target cannot be created
FailureSteps == {<<"NotStarted", "Failed">>, <<"Scheduling", "Failed">>}

PipelineStep == <<PipelineState[pipe_pc], PipelineState[pipe_pc']>>

TargetWritten == effects'.target_writes # effects.target_writes \/ target_file' # target_file

C33_WitnessFailed ==
    /\ kind = "mapping"
    /\ pipe_pc = "failed"
    /\ pc[Job] = "done"
    /\ final_map[Job] # << >>
    /\ TargetUntouched

(***************************************************************************)
(* C34: in incremental mode the artifact that core_translation_pipeline    *)
(* has written holds every entry of the artifact it found, under the same  *)
(* key and with the same value, whether batches failed or not.             *)
(***************************************************************************)
C34_ExistingEntriesKept ==
    (kind = "mapping" /\ update_existing /\ pipe_pc = "written")
    => \A k \in DOMAIN effects.target_at_entry.content :
           /\ k \in DOMAIN target_file.content
           /\ target_file.content[k] = effects.target_at_entry.content[k]

(***************************************************************************)
(* Vocabulary of the claim about the run that follows a run with failed    *)
(* batches.                                                                *)
(***************************************************************************)
\* the keys of the batches of run r that failed: r saved its result, so the
\* token was not cancelled and every batch had either succeeded or failed
FailedKeys(r) ==
    {k \in DOMAIN r.pending : Translatable(r.pending[k]) /\ k \notin r.translated}

\* the run before the current one was not cancelled, saved its result and
\* had a failed batch
PreviousRunDroppedBatch ==
    /\ history # << >>
    /\ history[Len(history)].outcome = "written"
    /\ FailedKeys(history[Len(history)]) # {}

\* the current run has computed its pending set
PendingSetStands == pipe_pc \in {"up_to_date", "translating", "cancelled", "written"}

(***************************************************************************)
(* C35: after a run that was not cancelled and in which a batch failed,    *)
(* the keys of the failed batches are not in the artifact the run wrote,   *)
(* and the pending set of the next incremental run on the same source is   *)
(* the set of these keys: it holds no key of the artifact.  A run all of   *)
(* whose batches succeed writes an artifact that holds every source key.   *)
(***************************************************************************)
C35_FailedKeysPendingAgain ==
    /\ PreviousRunDroppedBatch
       => LET last == history[Len(history)]
          IN  /\ FailedKeys(last) \cap DOMAIN last.target.content = {}
              /\ pipe_pc = "start" => DOMAIN Plan.pending = FailedKeys(last)
              /\ PendingSetStands
                 => /\ pipe_pc # "up_to_date"
                    /\ PendingKeys = FailedKeys(last)
                    /\ PendingKeys \cap DOMAIN last.target.content = {}
    /\ (pipe_pc = "written" /\ FailedKeys([pending |-> map[Job],
                                            translated |-> RunSummary.translated]) = {})
       => DOMAIN src_map \subseteq DOMAIN target_file.content

(***************************************************************************)
(* C36: with a semaphore of NetLimit >= 1 permits shared by the concurrent *)
(* invocations of execute_translation_batches, and every remote call       *)
(* returning, every invocation returns, whether the token is cancelled     *)
(* during the run or not.                                                  *)
(***************************************************************************)
C36_EveryInvocationReturns == \A i \in Inv : <>(pc[i] = "done")

\* an invocation waits for a permit while the tasks of the invocations hold
\* every permit and the token is cancelled
C36_Witness ==
    /\ token
    /\ permits = 0
    /\ \E i \in Inv : pc[i] = "waiting"
    /\ \E i \in Inv, b \in 0..MaxKeys : b \in DOMAIN tasks[i] /\ tasks[i][b].st = "backoff"

(***************************************************************************)
(* Vocabulary of the claim about an invocation whose token is cancelled    *)
(* from the start.                                                         *)
(***************************************************************************)
\* the token is cancelled and the invocation has not taken its first batch:
\* this holds from the first step of an invocation that is entered with the
\* token cancelled
CancelledBeforeFirstBatch ==
    /\ kind = "mapping"
    /\ token
    /\ tasks[Job] = << >>
    /\ pc[Job] \in {"idle", "start", "loop", "join", "done"}

WritesNothing ==
    /\ target_file' = target_file
    /\ raw_file' = raw_file
    /\ effects'.target_writes = effects.target_writes
    /\ effects'.raw_writes = effects.raw_writes

(***************************************************************************)
(* C37: an invocation of core_translation_pipeline that is entered with    *)
(* the token cancelled dispatches no batch, so issues no remote call, and  *)
(* none of its steps writes the target artifact or a raw backup file.      *)
(***************************************************************************)
C37_PresetTokenTouchesNothing ==
    [][CancelledBeforeFirstBatch => (CancelledBeforeFirstBatch' /\ WritesNothing)]_vars

(***************************************************************************)
(* Vocabulary of the claims about the window.                              *)
(***************************************************************************)
\* the runs whose thread is executing
ActiveRuns == {r \in DOMAIN threads : threads[r].st = "running"}

\* the user has cancelled run r
CancelledByUser(r) == run_tokens[r]

(***************************************************************************)
(* C38: at most one processing run is executing at any time.               *)
(***************************************************************************)
C38_AtMostOneRun == Cardinality(ActiveRuns) <= 1

(***************************************************************************)
(* C39: while a run is executing and the user has not cancelled it,        *)
(* is_processing is true and cancellation_token holds the token of that    *)
(* run.                                                                    *)
(***************************************************************************)
C39_ActiveRunCancellable ==
    \A r \in ActiveRuns :
        ~CancelledByUser(r)
        => (is_processing /\ cancellation_token = RunToken(r))

(***************************************************************************)
(* Vocabulary of the claim about the arithmetic of the backoff.            *)
(***************************************************************************)
\* x <= y for two values that are 0 or a power of two
AtMost64(x, y) == x.zero \/ (~y.zero /\ x.log2 <= y.log2)

(***************************************************************************)
(* C40: for every max_retries and retry_delay of the configuration and     *)
(* every attempt a < max_retries that send_with_retry reaches, 2^a and     *)
(* retry_delay * 2^a are computed without overflow of u64, and each is at  *)
(* least what it was for the attempt before.                               *)
(***************************************************************************)
C40_BackoffNeverOverflows ==
    /\ backoff_pc # "panicked"
    /\ ~backoff_wait.rate_limited.overflow
    /\ ~backoff_wait.network.overflow
    /\ backoff_prev.wait.computed
       => AtMost64(backoff_prev.wait.value, backoff_wait[backoff_prev.kind].value)

====
